---- MODULE Spec2Model ----
(***************************************************************************)
(* A model of the robomoustachio reputation pipeline:                      *)
(*   - the indexer cycle and its polling loop (server/indexer.js),         *)
(*   - the scoring engine (server/scoring.js),                             *)
(*   - the TrustScore storage contract (contracts/TrustScore.sol),         *)
(*   - the trust client's source sequence (src/agentkit/client.js).        *)
(*                                                                         *)
(* Time is counted in whole days (DAY_MS is one unit of the model clock),  *)
(* so that timestamps stay small integers.  A block holds at most one      *)
(* feedback event; the block that mines an indexer transaction is one of   *)
(* the blocks NewBlock adds without an event.                              *)
(***************************************************************************)
EXTENDS Integers, Sequences, FiniteSets, TLC

\* ------------------------------------------------------------------ bounds
MaxBlock == 3
MaxAgent == 2
MaxBatchSizeBound == 2
MaxStartBlock == 1
MaxTxPerCycle == 2
BlockIntervalDays == 20

Agents == 1..MaxAgent

\* the agents that receive feedback on the registry the indexer reads
MaxIndexedAgent == 3

IndexedAgents == 1..MaxIndexedAgent

AllAgents == Agents \cup IndexedAgents

\* ------------------------------------------------------------------ helpers
Null == -1

Min(a, b) == IF a < b THEN a ELSE b
Max(a, b) == IF a > b THEN a ELSE b

SeqToSet(s) == {s[i] : i \in 1..Len(s)}

\* Array.prototype.slice(from) / slice(0, to) on a sequence (0-based bounds)
slice(s, from, to) ==
  LET lo == Min(from, Len(s))
      hi == Min(to, Len(s))
  IN  [i \in 1..(IF hi > lo THEN hi - lo ELSE 0) |-> s[lo + i]]

\* BigInt.prototype.toString(): the decimal digits of a non-negative integer
RECURSIVE toString(_)
toString(n) == IF n < 10 THEN <<n>> ELSE toString(n \div 10) \o <<n % 10>>

\* BigInt(string): the value of a digit string
RECURSIVE BigInt(_)
BigInt(s) ==
  IF Len(s) = 0 THEN 0
  ELSE 10 * BigInt(SubSeq(s, 1, Len(s) - 1)) + s[Len(s)]

\* a string is a sequence of characters: the digits 0..9 stand for themselves
MinusChar == 10
LetterChar == 11

IsDigitString(s) == \A i \in 1..Len(s) : s[i] \in 0..9

\* BigInt(value) of a string: its value, or a SyntaxError; the empty string is 0n
ParseBigInt(value) ==
  IF IsDigitString(value) THEN [threw |-> FALSE, n |-> BigInt(value)]
  ELSE IF /\ Len(value) > 1
          /\ value[1] = MinusChar
          /\ IsDigitString(Tail(value))
       THEN [threw |-> FALSE, n |-> 0 - BigInt(Tail(value))]
       ELSE [threw |-> TRUE, n |-> 0]

\* the null that normalizeAgentIdString returns is the empty sequence, which
\* toString never returns
NoAgentId == <<>>

normalizeAgentIdStringUnsigned(value) ==
  LET asBigInt == ParseBigInt(value)
  IN  IF asBigInt.threw THEN NoAgentId
      ELSE toString(IF asBigInt.n < 0 THEN 0 - asBigInt.n ELSE asBigInt.n)

normalizeAgentIdString(value) ==
  LET asBigInt == ParseBigInt(value)
  IN  IF asBigInt.threw \/ asBigInt.n < 0 THEN NoAgentId
      ELSE toString(asBigInt.n)

\* Array.prototype.sort with the comparator (a, b) => (a < b ? -1 : 1)
RECURSIVE SortAscending(_)
SortAscending(S) ==
  IF S = {} THEN <<>>
  ELSE LET m == CHOOSE x \in S : \A y \in S : x <= y
       IN  <<m>> \o SortAscending(S \ {m})

\* Math.round of the non-negative rational n / d
Round(n, d) == (2 * n + d) \div (2 * d)

\* ------------------------------------------------------------------ scoring engine
DAY_MS == 1
DEFAULT_MAX_SCORE == 1000

\* multipliers are rationals [n, d]: 1.05 is 105/100 and 0.9 is 9/10
DEFAULT_SCORING_CONFIG ==
  [decayWindowDays |-> 30,
   recentFeedbackWeight |-> 2,
   olderFeedbackWeight |-> 1,
   confidenceThresholdFeedbackCount |-> 50,
   confidenceMultiplier |-> [n |-> 105, d |-> 100],
   negativeFlagThresholdBps |-> 2000,
   recentNegativeWindowDays |-> 7,
   flaggedScoreMultiplier |-> [n |-> 9, d |-> 10],
   maxScore |-> DEFAULT_MAX_SCORE]

clampUnbounded(value, min, max) == value

clamp(value, min, max) ==
  IF value.n < min * value.d THEN [n |-> min, d |-> 1]
  ELSE IF value.n > max * value.d THEN [n |-> max, d |-> 1]
  ELSE value

\* the accumulation loop of scoreFeedbackDetailed over feedbacks[1..k]
RECURSIVE Accumulate(_, _, _, _)
Accumulate(feedbacks, cfg, nowMs, k) ==
  IF k = 0
  THEN [weightedPositive |-> 0, weightedTotal |-> 0, totalFeedback |-> 0,
        positiveFeedback |-> 0, recentFeedbackCount |-> 0, recentNegativeCount |-> 0]
  ELSE LET acc == Accumulate(feedbacks, cfg, nowMs, k - 1)
           feedback == feedbacks[k]
           decayCutoffMs == nowMs - cfg.decayWindowDays * DAY_MS
           recentNegativeCutoffMs == nowMs - cfg.recentNegativeWindowDays * DAY_MS
           weight == IF feedback.timestamp >= decayCutoffMs
                     THEN cfg.recentFeedbackWeight ELSE cfg.olderFeedbackWeight
           recent == feedback.timestamp >= recentNegativeCutoffMs
       IN  [weightedPositive |-> acc.weightedPositive + (IF feedback.isPositive THEN weight ELSE 0),
            weightedTotal |-> acc.weightedTotal + weight,
            totalFeedback |-> acc.totalFeedback + 1,
            positiveFeedback |-> acc.positiveFeedback + (IF feedback.isPositive THEN 1 ELSE 0),
            recentFeedbackCount |-> acc.recentFeedbackCount + (IF recent THEN 1 ELSE 0),
            recentNegativeCount |-> acc.recentNegativeCount
                                    + (IF recent /\ ~feedback.isPositive THEN 1 ELSE 0)]

scoreFeedbackDetailed(feedbacks, cfg, nowMs) ==
  LET acc == Accumulate(feedbacks, cfg, nowMs, Len(feedbacks))
  IN  IF acc.weightedTotal = 0
      THEN [score |-> 0, baseScore |-> 0, confidenceAdjustedScore |-> 0, flagged |-> FALSE,
            totalFeedback |-> 0, positiveFeedback |-> 0, recentNegativeRateBps |-> 0,
            recentFeedbackCount |-> 0, confidenceApplied |-> FALSE]
      ELSE LET baseScoreRaw == [n |-> acc.weightedPositive * cfg.maxScore, d |-> acc.weightedTotal]
               confidenceApplied == acc.totalFeedback >= cfg.confidenceThresholdFeedbackCount
               confidenceAdjustedRaw ==
                 IF confidenceApplied
                 THEN [n |-> baseScoreRaw.n * cfg.confidenceMultiplier.n,
                       d |-> baseScoreRaw.d * cfg.confidenceMultiplier.d]
                 ELSE baseScoreRaw
               recentNegativeRateBps ==
                 IF acc.recentFeedbackCount = 0 THEN 0
                 ELSE Round(acc.recentNegativeCount * 10000, acc.recentFeedbackCount)
               flagged == acc.recentFeedbackCount > 0
                          /\ recentNegativeRateBps > cfg.negativeFlagThresholdBps
               penalizedRaw ==
                 IF flagged
                 THEN [n |-> confidenceAdjustedRaw.n * cfg.flaggedScoreMultiplier.n,
                       d |-> confidenceAdjustedRaw.d * cfg.flaggedScoreMultiplier.d]
                 ELSE confidenceAdjustedRaw
               rounded(raw) == LET c == clamp(raw, 0, cfg.maxScore) IN Round(c.n, c.d)
           IN  [score |-> rounded(penalizedRaw),
                baseScore |-> rounded(baseScoreRaw),
                confidenceAdjustedScore |-> rounded(confidenceAdjustedRaw),
                flagged |-> flagged,
                totalFeedback |-> acc.totalFeedback,
                positiveFeedback |-> acc.positiveFeedback,
                recentNegativeRateBps |-> recentNegativeRateBps,
                recentFeedbackCount |-> acc.recentFeedbackCount,
                confidenceApplied |-> confidenceApplied]

\* ------------------------------------------------------------------ TrustScore contract
MAX_SCORE == 1000

NoRecord == [score |-> 0, totalFeedback |-> 0, positiveFeedback |-> 0, lastUpdated |-> 0,
             exists |-> FALSE]

\* _assertRegistered: identityRegistry.ownerOf(agentId) answers a non-zero owner
AssertRegistered(registry, agentId) == agentId \in registry

\* mutant: the record is stored without the two checks of the arguments
ValidateAndUpdateUnchecked(storage, registry, agentId, newScore, totalFb, posFb, timestamp) ==
  IF ~AssertRegistered(registry, agentId) THEN [reverted |-> TRUE, storage |-> storage]
  ELSE [reverted |-> FALSE,
        storage |-> [storage EXCEPT ![agentId] =
                       [score |-> newScore, totalFeedback |-> totalFb,
                        positiveFeedback |-> posFb, lastUpdated |-> timestamp,
                        exists |-> TRUE]]]

\* mutant: the feedback counts are added to the stored ones
ValidateAndUpdateAdding(storage, registry, agentId, newScore, totalFb, posFb, timestamp) ==
  IF newScore > MAX_SCORE THEN [reverted |-> TRUE, storage |-> storage]
  ELSE IF posFb > totalFb THEN [reverted |-> TRUE, storage |-> storage]
  ELSE IF ~AssertRegistered(registry, agentId) THEN [reverted |-> TRUE, storage |-> storage]
  ELSE [reverted |-> FALSE,
        storage |-> [storage EXCEPT ![agentId] =
                       [score |-> newScore,
                        totalFeedback |-> storage[agentId].totalFeedback + totalFb,
                        positiveFeedback |-> storage[agentId].positiveFeedback + posFb,
                        lastUpdated |-> timestamp,
                        exists |-> TRUE]]]

\* _validateAndUpdate: the storage after the call, and whether it reverted
ValidateAndUpdate(storage, registry, agentId, newScore, totalFb, posFb, timestamp) ==
  IF newScore > MAX_SCORE THEN [reverted |-> TRUE, storage |-> storage]
  ELSE IF posFb > totalFb THEN [reverted |-> TRUE, storage |-> storage]
  ELSE IF ~AssertRegistered(registry, agentId) THEN [reverted |-> TRUE, storage |-> storage]
  ELSE [reverted |-> FALSE,
        storage |-> [storage EXCEPT ![agentId] =
                       [score |-> newScore, totalFeedback |-> totalFb,
                        positiveFeedback |-> posFb, lastUpdated |-> timestamp,
                        exists |-> TRUE]]]

\* the loop of batchUpdateScores over entries 1..k
RECURSIVE BatchLoop(_, _, _, _, _, _, _, _)
BatchLoop(storage, registry, agentIds, scores, totals, positives, timestamp, k) ==
  IF k = 0 THEN [reverted |-> FALSE, storage |-> storage]
  ELSE LET before == BatchLoop(storage, registry, agentIds, scores, totals, positives,
                               timestamp, k - 1)
       IN  IF before.reverted THEN before
           ELSE ValidateAndUpdate(before.storage, registry, agentIds[k], scores[k],
                                  totals[k], positives[k], timestamp)

\* batchUpdateScores as one transaction: a revert anywhere restores the storage
batchUpdateScores(storage, registry, isUpdater, agentIds, scores, totals, positives, timestamp) ==
  IF ~isUpdater THEN [reverted |-> TRUE, storage |-> storage]
  ELSE IF Len(agentIds) # Len(scores) \/ Len(agentIds) # Len(totals)
          \/ Len(agentIds) # Len(positives)
  THEN [reverted |-> TRUE, storage |-> storage]
  ELSE LET r == BatchLoop(storage, registry, agentIds, scores, totals, positives, timestamp,
                          Len(agentIds))
       IN  IF r.reverted THEN [reverted |-> TRUE, storage |-> storage] ELSE r

updateScore(storage, registry, isUpdater, agentId, newScore, totalFb, posFb, timestamp) ==
  IF ~isUpdater THEN [reverted |-> TRUE, storage |-> storage]
  ELSE ValidateAndUpdate(storage, registry, agentId, newScore, totalFb, posFb, timestamp)

\* ------------------------------------------------------------------ state
VARIABLES
  chain,          \* chain[b]: the feedback events the registry emitted in block b
  ckptFile,       \* the checkpoint file
  startBlock,     \* config.startBlock
  maxBatchSize,   \* config.maxBatchSize
  loopPc,         \* position of startIndexer
  pc,             \* position of runIndexerCycle
  inFlight,       \* runIndexerCycle invocations that have neither returned nor thrown
  cycle,          \* the locals of the running cycle
  txBroadcast,    \* batchUpdateScores transactions of this cycle that reached the chain
  ckptAtStart,    \* the checkpoint file as the last cycle invoked found it
  failStage,      \* the step at which the cycle threw
  prev,           \* what the last cycle the loop finished observed, and how it ended
  ledger,         \* history: the batches mined per agent, and the cycles since a queue was saved
  scoringConfig,  \* config.scoringConfig: the normalised scoring configuration of the indexer
  \* the TrustScore contract
  _scores,        \* mapping(uint256 agentId => ScoreRecord)
  registered,     \* the agents identityRegistry.ownerOf answers an owner for
  blockTimestamp, \* block.timestamp of the block being mined
  applied,        \* the batch last accepted, the storage it left, and how often it ran
  \* the trust client
  clientPc,       \* position of queryTrust
  config,         \* the client's configuration
  options,        \* the options of the call
  sequence,       \* the source sequence of the call
  call,           \* the action called and the raw agent ID it was given
  parsedAgentId,  \* agentId of queryTrust, once validated
  idx,            \* the position of the loop over sequence
  priorFailure,   \* priorFailure of queryTrust
  lastError,      \* the error the last failed attempt threw
  failures,       \* history: the classification of every failed attempt, in order
  answer,         \* history: what the source that succeeded answered
  attempted,      \* the sources attempted so far in this call
  pending,        \* the sources whose answer is awaited
  calls,          \* the factory and remote calls made so far in this call
  envelope,       \* what the action returns
  paidFetch,      \* the paid fetcher the client keeps
  factoryLog,     \* history: how each call of paidFetchFactory by this client ended
  scoring,        \* the last call of scoreFeedbackDetailed: its arguments and its result
  scoringBefore,  \* the call before it, when the last one scored the same list plus one entry
  roundTrip,      \* a checkpoint that was saved and loaded again: given, written, loaded
  deduped,        \* the last call of dedupeLogs: its argument and its result
  split,          \* the last split of a dirty set: its inputs and the three lists
  classified,     \* the last call of isRpcError: the error objects and the answer
  harness,        \* a call of withExponentialBackoff: its options, locals and history
  fsDir,          \* the checkpoint directory: the file each name leads to
  fsInodes,       \* the files on disk: whose text each holds and how much of it
  savePc,         \* the position of saveCheckpoint
  saving,         \* the checkpoint saveCheckpoint was called with last
  lastSaved,      \* history: the checkpoint of the last saveCheckpoint that returned
  reader,         \* a reader of the checkpoint file: its position and the file it opened
  observed        \* history: what the reader got last

indexerVars == <<chain, ckptFile, startBlock, maxBatchSize, loopPc, pc, inFlight,
                 cycle, txBroadcast, ckptAtStart, failStage, prev, ledger, scoringConfig>>

contractVars == <<_scores, registered, blockTimestamp, applied>>

queryVars == <<call, parsedAgentId, idx, priorFailure, lastError, failures, answer, attempted,
               pending, calls, envelope>>

clientVars == <<clientPc, config, options, sequence, queryVars, paidFetch, factoryLog>>

\* the calls of the library functions that keep no state of their own
libraryVars == <<scoring, scoringBefore, roundTrip, deduped, split, classified, harness>>

fileVars == <<fsDir, fsInodes, savePc, saving, lastSaved, reader, observed>>

outsideFile == <<indexerVars, contractVars, clientVars, libraryVars>>

outsideHarness == <<indexerVars, contractVars, clientVars, fileVars, scoring, scoringBefore,
                    roundTrip, deduped, split, classified>>

\* what the indexer leaves alone: the contract's storage is written by the
\* transactions it submits, whose validation BatchTx decides
outsideIndexer == <<contractVars, clientVars, libraryVars, fileVars>>

vars == <<indexerVars, contractVars, clientVars, libraryVars, fileVars>>

\* ------------------------------------------------------------------ chain
\* the sentiment of the feedback an agent receives in a block (value > 0)
EventSign(agentId, blockNumber) == (agentId + blockNumber) % 2 = 0


\* block.timestamp of block b
BlockTimestamp(b) == b * BlockIntervalDays

\* Date.now(): the wall clock of the model stands at the time of the last block
NowMs == BlockTimestamp(MaxBlock) * DAY_MS

\* provider.getBlockNumber()
getBlockNumber == Len(chain)

\* the registry emits feedback (or nothing) in a new block
NewBlock ==
  /\ Len(chain) < MaxBlock
  /\ \E evs \in {{}} \cup {{[agentId |-> a, isPositive |-> EventSign(a, Len(chain) + 1)]} :
                              a \in IndexedAgents} :
       chain' = Append(chain, evs)
  /\ UNCHANGED <<ckptFile, startBlock, maxBatchSize, scoringConfig, loopPc, pc, inFlight, cycle,
                 txBroadcast, outsideIndexer, ledger, ckptAtStart, failStage, prev>>

\* queryFilter over [fromBlock, toBlock], deduplicated and sorted by block:
\* one log per event, in ascending block order
RECURSIVE LogsInRange(_, _, _)
LogsInRange(c, fromBlock, toBlock) ==
  IF fromBlock > toBlock THEN <<>>
  ELSE LogsInRange(c, fromBlock, toBlock - 1)
       \o (IF toBlock >= 1 /\ toBlock <= Len(c) /\ c[toBlock] # {}
           THEN LET e == CHOOSE x \in c[toBlock] : TRUE
                IN  <<[agentId |-> e.agentId, isPositive |-> e.isPositive,
                       blockNumber |-> toBlock]>>
           ELSE <<>>)

queryFeedbackLogs(c, fromBlock, toBlock) == LogsInRange(c, fromBlock, toBlock)

RECURSIVE FilterAgent(_, _)
FilterAgent(logs, agentId) ==
  IF logs = <<>> THEN <<>>
  ELSE (IF Head(logs).agentId = agentId THEN <<Head(logs)>> ELSE <<>>)
       \o FilterAgent(Tail(logs), agentId)

queryFeedbackLogsForAgent(c, agentId, fromBlock, toBlock) ==
  FilterAgent(LogsInRange(c, fromBlock, toBlock), agentId)

\* mutant: the agent's logs are collected from the window of the cycle only
collectFeedbackForAgentInWindow(c, agentId, fromBlock, toBlock) ==
  LET window == IF cycle.checkpoint.lastProcessedBlock # Null
                THEN cycle.checkpoint.lastProcessedBlock + 1 ELSE fromBlock
      logs == queryFeedbackLogsForAgent(c, agentId, window, toBlock)
  IN  [i \in 1..Len(logs) |->
         [isPositive |-> logs[i].isPositive,
          timestamp |-> BlockTimestamp(logs[i].blockNumber) * DAY_MS]]

\* collectFeedbackForAgent: sentiment and block time of each of the agent's logs
collectFeedbackForAgent(c, agentId, fromBlock, toBlock) ==
  LET logs == queryFeedbackLogsForAgent(c, agentId, fromBlock, toBlock)
  IN  [i \in 1..Len(logs) |->
         [isPositive |-> logs[i].isPositive,
          timestamp |-> BlockTimestamp(logs[i].blockNumber) * DAY_MS]]

\* ------------------------------------------------------------------ checkpoint store
ZeroCheckpoint == [lastProcessedBlock |-> Null, pendingAgentIds |-> <<>>]
MissingFile == [exists |-> FALSE, content |-> ZeroCheckpoint]

\* the loop of normalizeCheckpoint: first-seen order, null and duplicates dropped
RECURSIVE NormalizePending(_, _)
NormalizePending(ids, k) ==
  IF k = 0 THEN <<>>
  ELSE LET before == NormalizePending(ids, k - 1)
           normalized == normalizeAgentIdString(ids[k])
       IN  IF normalized = NoAgentId \/ normalized \in SeqToSet(before)
           THEN before
           ELSE Append(before, normalized)

normalizeCheckpoint(raw) ==
  [lastProcessedBlock |-> IF raw.lastProcessedBlock >= 0 THEN raw.lastProcessedBlock ELSE Null,
   pendingAgentIds |-> NormalizePending(raw.pendingAgentIds, Len(raw.pendingAgentIds))]

loadCheckpoint(file) ==
  IF file.exists THEN normalizeCheckpoint(file.content) ELSE ZeroCheckpoint

\* ------------------------------------------------------------------ indexer cycle
\* the scoring configuration the indexer runs with: the defaults, with the
\* confidence threshold lowered into the range the chain of this model reaches
IndexerScoringConfig ==
  [DEFAULT_SCORING_CONFIG EXCEPT !.confidenceThresholdFeedbackCount = 2]

FreshCycle(nowMs) ==
  [nowMs |-> nowMs, checkpoint |-> ZeroCheckpoint, latestBlock |-> 0, newEventCount |-> 0,
   sortedDirtyAgents |-> <<>>, agentsToProcess |-> <<>>, queuedAgentIds |-> <<>>,
   agentIds |-> <<>>, scores |-> <<>>, totals |-> <<>>, positives |-> <<>>, txHashes |-> 0]

\* the history the claims about committed agents read: per agent the highest
\* head of a cycle whose batch with the agent was mined; and, since the last
\* checkpoint that was saved by a cycle with new events, the queue it left,
\* the cycles that returned and the batches mined per agent, as long as no
\* cycle saw a new event or failed
NoLedger ==
  [commits |-> [a \in IndexedAgents |-> 0], clean |-> FALSE, start |-> {}, cycles |-> 0,
   counts |-> [a \in IndexedAgents |-> 0]]

Disturbed(l) == [NoLedger EXCEPT !.commits = l.commits]

Mined(l, agentIds, head) ==
  [l EXCEPT !.commits = [a \in IndexedAgents |->
                           IF a \in SeqToSet(agentIds) THEN Max(l.commits[a], head)
                           ELSE l.commits[a]],
            !.counts = [a \in IndexedAgents |->
                          IF l.clean /\ a \in SeqToSet(agentIds) THEN Min(l.counts[a] + 1, 2)
                          ELSE l.counts[a]]]

Saved(l, queuedAgentIds) ==
  IF l.clean THEN [l EXCEPT !.cycles = Min(l.cycles + 1, MaxIndexedAgent)]
  ELSE [NoLedger EXCEPT !.commits = l.commits, !.clean = TRUE,
                        !.start = {BigInt(id) : id \in SeqToSet(queuedAgentIds)}]

NoPrev == [ended |-> "never", hasDirty |-> FALSE, committed |-> FALSE, dirty |-> {},
           queued |-> {}]

\* what a cycle that ends now leaves for the next one to be compared with
EndOfCycle(c, ended, hasDirty, committed) ==
  [ended |-> ended, hasDirty |-> hasDirty, committed |-> committed,
   dirty |-> SeqToSet(c.sortedDirtyAgents),
   queued |-> {BigInt(id) : id \in SeqToSet(c.queuedAgentIds)}]

\* mutant: without a checkpoint the baseline is startBlock itself
FromBlockAfterStart(checkpoint, start) ==
  (IF checkpoint.lastProcessedBlock # Null THEN checkpoint.lastProcessedBlock
   ELSE start) + 1

\* baselineLastProcessed + 1
FromBlock(checkpoint, start) ==
  (IF checkpoint.lastProcessedBlock # Null THEN checkpoint.lastProcessedBlock
   ELSE Max(start - 1, 0)) + 1

\* mutant: the dirty set starts empty instead of from the pending IDs
DirtyAgentIdsOfLogsOnly(checkpoint, newlyObservedLogs) ==
  {normalizeAgentIdString(toString(newlyObservedLogs[i].agentId)) :
     i \in 1..Len(newlyObservedLogs)} \ {NoAgentId}

\* the dirty set: the checkpoint's pending IDs and the agents of the new logs
DirtyAgentIds(checkpoint, newlyObservedLogs) ==
  SeqToSet(checkpoint.pendingAgentIds)
    \cup ({normalizeAgentIdString(toString(newlyObservedLogs[i].agentId)) :
             i \in 1..Len(newlyObservedLogs)} \ {NoAgentId})

\* the order of Array.prototype.sort without a comparator: by the strings
RECURSIVE StringBefore(_, _)
StringBefore(s, t) ==
  IF Len(s) = 0 THEN Len(t) > 0
  ELSE IF Len(t) = 0 THEN FALSE
  ELSE IF s[1] # t[1] THEN s[1] < t[1]
  ELSE StringBefore(Tail(s), Tail(t))

RECURSIVE SortStrings(_)
SortStrings(S) ==
  IF S = {} THEN <<>>
  ELSE LET m == CHOOSE x \in S : \A y \in S \ {x} : StringBefore(x, y)
       IN  <<m>> \o SortStrings(S \ {m})

\* mutant: the IDs are sorted as strings and converted afterwards
SortedDirtyAgentsAsStrings(dirtyAgentIds) ==
  LET sorted == SortStrings(dirtyAgentIds)
  IN  [i \in 1..Len(sorted) |-> BigInt(sorted[i])]

SortedDirtyAgents(dirtyAgentIds) == SortAscending({BigInt(id) : id \in dirtyAgentIds})

\* mutant: the batch is cut from the end of the sorted list
AgentsToProcessFromEnd(sortedDirtyAgents, batchSize) ==
  slice(sortedDirtyAgents, Max(Len(sortedDirtyAgents) - batchSize, 0), Len(sortedDirtyAgents))

AgentsToProcess(sortedDirtyAgents, batchSize) == slice(sortedDirtyAgents, 0, batchSize)

\* mutant: the first agent after the batch is left out of the queue
QueuedAgentIdsSkippingOne(sortedDirtyAgents, batchSize) ==
  LET rest == slice(sortedDirtyAgents, batchSize + 1, Len(sortedDirtyAgents))
  IN  [i \in 1..Len(rest) |-> toString(rest[i])]

\* mutant: the queue is cut after the first agent, whatever the batch size
QueuedAgentIdsAfterFirst(sortedDirtyAgents, batchSize) ==
  LET rest == slice(sortedDirtyAgents, 1, Len(sortedDirtyAgents))
  IN  [i \in 1..Len(rest) |-> toString(rest[i])]

QueuedAgentIds(sortedDirtyAgents, batchSize) ==
  LET rest == slice(sortedDirtyAgents, batchSize, Len(sortedDirtyAgents))
  IN  [i \in 1..Len(rest) |-> toString(rest[i])]

\* mutant: the head is read again when the checkpoint is built
NextCheckpointAtHead(latestBlock, queuedAgentIds) ==
  [lastProcessedBlock |-> getBlockNumber, pendingAgentIds |-> queuedAgentIds]

\* the object runIndexerCycle hands to saveCheckpoint
NextCheckpoint(latestBlock, queuedAgentIds) ==
  [lastProcessedBlock |-> latestBlock, pendingAgentIds |-> queuedAgentIds]

\* the steps of a cycle that await an RPC through withExponentialBackoff
RpcStages == {"head", "scan", "collect", "submit", "wait"}

\* mutant: the loop starts a cycle on every tick, awaited or not
LoopCallWithoutAwait ==
  /\ loopPc \in {"call", "await"}
  /\ loopPc' = "await"
  /\ pc' = "load"
  /\ inFlight' = inFlight + 1
  /\ cycle' = FreshCycle(NowMs)
  /\ txBroadcast' = 0
  /\ ckptAtStart' = ckptFile
  /\ failStage' = "none"
  /\ UNCHANGED <<chain, ckptFile, startBlock, maxBatchSize, scoringConfig, outsideIndexer, ledger, prev>>

\* startIndexer: `await runIndexerCycle(config)` begins a cycle
LoopCall ==
  /\ loopPc = "call"
  /\ loopPc' = "await"
  /\ pc' = "load"
  /\ inFlight' = inFlight + 1
  /\ cycle' = FreshCycle(NowMs)
  /\ txBroadcast' = 0
  /\ ckptAtStart' = ckptFile
  /\ failStage' = "none"
  /\ UNCHANGED <<chain, ckptFile, startBlock, maxBatchSize, scoringConfig, outsideIndexer, ledger, prev>>

\* mutant: a cycle that fails once its batch is on chain records the head and
\* the queue before it throws
CycleThrowsAdvancing ==
  /\ pc \in {"load", "head", "scan", "collect", "submit", "wait", "save"}
  /\ pc' = "thrown"
  /\ failStage' = pc
  /\ inFlight' = inFlight - 1
  /\ ckptFile' = IF txBroadcast > 0
                 THEN [exists |-> TRUE,
                       content |-> normalizeCheckpoint(
                                     NextCheckpoint(cycle.latestBlock, cycle.queuedAgentIds))]
                 ELSE ckptFile
  /\ ledger' = Disturbed(ledger)
  /\ UNCHANGED <<chain, startBlock, maxBatchSize, scoringConfig, loopPc, cycle,
                 txBroadcast, outsideIndexer, ckptAtStart, prev>>

\* the cycle throws at its current step: a non-transient RPC error, a missing
\* block, an unreadable checkpoint, a failed write or rename
CycleThrows ==
  /\ pc \in {"load", "head", "scan", "collect", "submit", "wait", "save"}
  /\ pc' = "thrown"
  /\ failStage' = pc
  /\ inFlight' = inFlight - 1
  /\ ledger' = Disturbed(ledger)
  /\ UNCHANGED <<chain, ckptFile, startBlock, maxBatchSize, scoringConfig, loopPc, cycle,
                 txBroadcast, outsideIndexer, ckptAtStart, prev>>

\* a transient RPC error: the backoff harness sleeps and re-invokes the operation
RpcRetry ==
  /\ pc \in RpcStages
  /\ UNCHANGED vars

\* const checkpoint = await loadCheckpoint(config.checkpointPath)
LoadCheckpoint ==
  /\ pc = "load"
  /\ cycle' = [cycle EXCEPT !.checkpoint = loadCheckpoint(ckptFile)]
  /\ pc' = "head"
  /\ UNCHANGED <<chain, ckptFile, startBlock, maxBatchSize, scoringConfig, loopPc, inFlight,
                 txBroadcast, outsideIndexer, ledger, ckptAtStart, failStage, prev>>

\* const latestBlock = await rpcCall(() => provider.getBlockNumber())
GetLatestBlock ==
  /\ pc = "head"
  /\ cycle' = [cycle EXCEPT !.latestBlock = getBlockNumber]
  /\ pc' = "scan"
  /\ UNCHANGED <<chain, ckptFile, startBlock, maxBatchSize, scoringConfig, loopPc, inFlight,
                 txBroadcast, outsideIndexer, ledger, ckptAtStart, failStage, prev>>

\* the global scan, the dirty set and its split into batch and queue
ScanAndSplit ==
  /\ pc = "scan"
  /\ LET fromBlock == FromBlock(cycle.checkpoint, startBlock)
         newlyObservedLogs ==
           IF fromBlock <= cycle.latestBlock
           THEN queryFeedbackLogs(chain, fromBlock, cycle.latestBlock) ELSE <<>>
         sorted == SortedDirtyAgents(DirtyAgentIds(cycle.checkpoint, newlyObservedLogs))
         toProcess == AgentsToProcess(sorted, maxBatchSize)
     IN  /\ cycle' = [cycle EXCEPT !.newEventCount = Len(newlyObservedLogs),
                                   !.sortedDirtyAgents = sorted,
                                   !.agentsToProcess = toProcess,
                                   !.queuedAgentIds = QueuedAgentIds(sorted, maxBatchSize)]
         /\ pc' = IF Len(toProcess) > 0 THEN "collect" ELSE "save"
  /\ ledger' = IF cycle'.newEventCount > 0 THEN Disturbed(ledger) ELSE ledger
  /\ UNCHANGED <<chain, ckptFile, startBlock, maxBatchSize, scoringConfig, loopPc, inFlight,
                 txBroadcast, outsideIndexer, ckptAtStart, failStage, prev>>

\* one iteration of `for (const agentId of agentsToProcess)`
CollectAndScore ==
  /\ pc = "collect"
  /\ LET agentId == cycle.agentsToProcess[Len(cycle.agentIds) + 1]
         feedbackEntries == collectFeedbackForAgent(chain, agentId, startBlock, cycle.latestBlock)
         details == scoreFeedbackDetailed(feedbackEntries, scoringConfig, cycle.nowMs)
     IN  /\ cycle' = [cycle EXCEPT !.agentIds = Append(@, agentId),
                                   !.scores = Append(@, details.score),
                                   !.totals = Append(@, details.totalFeedback),
                                   !.positives = Append(@, details.positiveFeedback)]
         /\ pc' = IF Len(cycle.agentIds) + 1 = Len(cycle.agentsToProcess)
                  THEN "submit" ELSE "collect"
  /\ UNCHANGED <<chain, ckptFile, startBlock, maxBatchSize, scoringConfig, loopPc, inFlight,
                 txBroadcast, outsideIndexer, ledger, ckptAtStart, failStage, prev>>

\* the transaction trustScore.batchUpdateScores(agentIds, scores, totals, positives)
\* of the updater signer, mined at the head of the chain
BatchTx ==
  batchUpdateScores(_scores, registered, TRUE, cycle.agentIds, cycle.scores, cycle.totals,
                    cycle.positives, BlockTimestamp(getBlockNumber))

\* mutant: the checkpoint is written once the transaction is sent, before its
\* receipt is awaited
SubmitBatchThenSave ==
  /\ pc = "submit"
  /\ ~BatchTx.reverted
  /\ txBroadcast < MaxTxPerCycle
  /\ txBroadcast' = txBroadcast + 1
  /\ cycle' = [cycle EXCEPT !.txHashes = @ + 1]
  /\ ckptFile' = [exists |-> TRUE,
                  content |-> normalizeCheckpoint(
                                NextCheckpoint(cycle.latestBlock, cycle.queuedAgentIds))]
  /\ pc' = "wait"
  /\ ledger' = Mined(ledger, cycle.agentIds, cycle.latestBlock)
  /\ UNCHANGED <<chain, startBlock, maxBatchSize, scoringConfig, loopPc, inFlight,
                 outsideIndexer, ckptAtStart, failStage, prev>>

\* rpcCall(() => trustScore.batchUpdateScores(...)) answers with the transaction
SubmitBatch ==
  /\ pc = "submit"
  /\ ~BatchTx.reverted
  /\ txBroadcast < MaxTxPerCycle
  /\ txBroadcast' = txBroadcast + 1
  /\ cycle' = [cycle EXCEPT !.txHashes = @ + 1]
  /\ pc' = "wait"
  /\ ledger' = Mined(ledger, cycle.agentIds, cycle.latestBlock)
  /\ UNCHANGED <<chain, ckptFile, startBlock, maxBatchSize, scoringConfig, loopPc, inFlight,
                 outsideIndexer, ckptAtStart, failStage, prev>>

\* the node accepted the transaction but its answer was lost (a timeout, a
\* missing response): isRpcError holds and the harness invokes
\* batchUpdateScores again
SubmitAnswerLost ==
  /\ pc = "submit"
  /\ ~BatchTx.reverted
  /\ txBroadcast + 1 < MaxTxPerCycle
  /\ txBroadcast' = txBroadcast + 1
  /\ ledger' = Disturbed(Mined(ledger, cycle.agentIds, cycle.latestBlock))
  /\ UNCHANGED <<chain, ckptFile, startBlock, maxBatchSize, scoringConfig, loopPc, pc, inFlight,
                 cycle, outsideIndexer, ckptAtStart, failStage, prev>>

\* await rpcCall(() => tx.wait())
WaitReceipt ==
  /\ pc = "wait"
  /\ pc' = "save"
  /\ UNCHANGED <<chain, ckptFile, startBlock, maxBatchSize, scoringConfig, loopPc, inFlight, cycle,
                 txBroadcast, outsideIndexer, ledger, ckptAtStart, failStage, prev>>

\* saveCheckpoint: the normalized checkpoint is written to the sibling .tmp file
\* and renamed over the checkpoint file; the cycle then returns
SaveCheckpoint ==
  /\ pc = "save"
  /\ ckptFile' = [exists |-> TRUE,
                  content |-> normalizeCheckpoint(
                                NextCheckpoint(cycle.latestBlock, cycle.queuedAgentIds))]
  /\ pc' = "returned"
  /\ inFlight' = inFlight - 1
  /\ ledger' = Saved(ledger, cycle.queuedAgentIds)
  /\ UNCHANGED <<chain, startBlock, maxBatchSize, scoringConfig, loopPc, cycle, txBroadcast, outsideIndexer,
                 ckptAtStart, failStage, prev>>

\* startIndexer: the cycle returned; log the result and go to sleep
LoopLogResult ==
  /\ loopPc = "await"
  /\ pc = "returned"
  /\ loopPc' = "sleep"
  /\ pc' = "idle"
  /\ prev' = EndOfCycle(cycle, "returned", TRUE, txBroadcast > 0)
  /\ cycle' = FreshCycle(0)
  /\ txBroadcast' = 0
  /\ UNCHANGED <<chain, ckptFile, startBlock, maxBatchSize, scoringConfig, inFlight, outsideIndexer, ledger,
                 ckptAtStart, failStage>>

\* mutant: the failure leaves the loop instead of being logged
LoopCatchRethrows ==
  /\ loopPc = "await"
  /\ pc = "thrown"
  /\ loopPc' = "stopped"
  /\ pc' = "idle"
  /\ prev' = EndOfCycle(cycle, "thrown", failStage \notin {"load", "head", "scan"},
                        txBroadcast > 0)
  /\ cycle' = FreshCycle(0)
  /\ txBroadcast' = 0
  /\ failStage' = "none"
  /\ UNCHANGED <<chain, ckptFile, startBlock, maxBatchSize, scoringConfig, inFlight, outsideIndexer, ledger,
                 ckptAtStart>>

\* startIndexer: catch (error) { console.error(...) }, then go to sleep
LoopCatch ==
  /\ loopPc = "await"
  /\ pc = "thrown"
  /\ loopPc' = "sleep"
  /\ pc' = "idle"
  /\ prev' = EndOfCycle(cycle, "thrown", failStage \notin {"load", "head", "scan"},
                        txBroadcast > 0)
  /\ cycle' = FreshCycle(0)
  /\ txBroadcast' = 0
  /\ failStage' = "none"
  /\ UNCHANGED <<chain, ckptFile, startBlock, maxBatchSize, scoringConfig, inFlight, outsideIndexer, ledger,
                 ckptAtStart>>

\* startIndexer: await sleep(config.pollIntervalMs) is over
SleepDone ==
  /\ loopPc = "sleep"
  /\ loopPc' = "call"
  /\ UNCHANGED <<chain, ckptFile, startBlock, maxBatchSize, scoringConfig, pc, inFlight, cycle,
                 txBroadcast, outsideIndexer, ledger, ckptAtStart, failStage, prev>>

\* ------------------------------------------------------------------ initial states
IndexerInit ==
  /\ chain = <<>>
  /\ ckptFile = MissingFile
  /\ startBlock \in 0..MaxStartBlock
  /\ maxBatchSize \in 1..MaxBatchSizeBound
  /\ loopPc = "call"
  /\ pc = "idle"
  /\ inFlight = 0
  /\ cycle = FreshCycle(0)
  /\ txBroadcast = 0
  /\ ckptAtStart = MissingFile
  /\ failStage = "none"
  /\ prev = NoPrev
  /\ ledger = NoLedger
  /\ scoringConfig = IndexerScoringConfig

\* the indexer before startIndexer is called, with the default start block
IndexerAtRest ==
  /\ chain = <<>>
  /\ ckptFile = MissingFile
  /\ startBlock = 0
  /\ maxBatchSize = 1
  /\ loopPc = "call"
  /\ pc = "idle"
  /\ inFlight = 0
  /\ cycle = FreshCycle(0)
  /\ txBroadcast = 0
  /\ ckptAtStart = MissingFile
  /\ failStage = "none"
  /\ prev = NoPrev
  /\ ledger = NoLedger
  /\ scoringConfig = IndexerScoringConfig

NoApplied == [times |-> 0, agentIds |-> <<>>, scores |-> <<>>, totals |-> <<>>,
              positives |-> <<>>, storage |-> [a \in AllAgents |-> NoRecord], at |-> 0]

\* the contract as deployed: nothing stored, every agent of the model registered
ContractInit ==
  /\ _scores = [a \in AllAgents |-> NoRecord]
  /\ registered = AllAgents
  /\ blockTimestamp = 1
  /\ applied = NoApplied

NoCall == [api |-> "none", kind |-> "none", rawAgentId |-> <<>>]
NoEnvelope == [status |-> "none"]

\* no call has been made
QueryAtRest ==
  /\ call = NoCall
  /\ parsedAgentId = <<>>
  /\ idx = 0
  /\ priorFailure = <<>>
  /\ lastError = <<>>
  /\ failures = <<>>
  /\ answer = <<>>
  /\ attempted = <<>>
  /\ pending = {}
  /\ calls = <<>>
  /\ envelope = NoEnvelope

\* the client of the defaults, before any call
ClientAtRest ==
  /\ clientPc = "idle"
  /\ config = [defaultMode |-> "api_paid", allowDemoFallback |-> TRUE,
               allowOnchainFallback |-> TRUE]
  /\ options = [mode |-> "", allowDemoFallback |-> <<>>, allowOnchainFallback |-> <<>>]
  /\ sequence = <<>>
  /\ QueryAtRest
  /\ paidFetch = "undefined"
  /\ factoryLog = <<>>

\* ------------------------------------------------------------------ checkpoint file
\* the two names saveCheckpoint uses in the checkpoint directory
checkpointPath == "checkpoint"
tmpPathSameFile == checkpointPath
tmpPath == "checkpoint.tmp"

Paths == {checkpointPath, "checkpoint.tmp"}

\* the saveCheckpoint calls of a behaviour; the k-th call writes checkpoint k
MaxSaves == 3

\* fs.writeFile reaches the disk in this many writes
FileChunks == 2

NoInode == 0

\* the file a name leads to, if any
Lookup(dir, name) == dir[name]

IsComplete(content) == content.chunks = FileChunks

\* rename(from, to): the name to leads to the file of from, in one step
Rename(dir, from, to) ==
  IF from = to THEN dir
  ELSE [dir EXCEPT ![to] = dir[from], ![from] = NoInode]

ReaderIdle == [pc |-> "idle", inode |-> NoInode, previous |-> 0, new |-> 0, during |-> "idle"]
NotObserved == [made |-> FALSE, version |-> 0, complete |-> TRUE, previous |-> 0, new |-> 0,
                during |-> "idle"]

FileAtRest ==
  /\ fsDir = [name \in Paths |-> NoInode]
  /\ fsInodes = <<>>
  /\ savePc = "idle"
  /\ saving = 0
  /\ lastSaved = 0
  /\ reader = ReaderIdle
  /\ observed = NotObserved

\* no library function has been called; a behaviour follows one call from here
NoScoring == [called |-> FALSE]

\* no call of withExponentialBackoff is under way
HarnessIdle ==
  [pc |-> "idle", initialDelayMs |-> 0, maxDelayMs |-> 0, maxRetries |-> 0, attempts |-> 0,
   delayMs |-> 0, invocations |-> 0, slept |-> <<>>, classes |-> <<>>, result |-> <<>>]

LibraryAtRest ==
  /\ scoring = NoScoring
  /\ scoringBefore = NoScoring
  /\ roundTrip = [called |-> FALSE]
  /\ deduped = [called |-> FALSE]
  /\ split = [called |-> FALSE]
  /\ classified = [called |-> FALSE]
  /\ harness = HarnessIdle

\* ------------------------------------------------------------------ the indexer
Init == IndexerInit /\ ContractInit /\ ClientAtRest /\ LibraryAtRest /\ FileAtRest

Next ==
  \/ NewBlock
  \/ LoopCall
  \/ LoadCheckpoint
  \/ GetLatestBlock
  \/ ScanAndSplit
  \/ CollectAndScore
  \/ SubmitBatch
  \/ SubmitAnswerLost
  \/ WaitReceipt
  \/ SaveCheckpoint
  \/ CycleThrows
  \/ RpcRetry
  \/ LoopLogResult
  \/ LoopCatch
  \/ SleepDone

Spec == Init /\ [][Next]_vars

\* the event loop runs a ready continuation and fires a due timer: the loop's
\* own steps are taken once they stay enabled
FairSpec ==
  Spec /\ WF_vars(LoopCall) /\ WF_vars(LoopLogResult) /\ WF_vars(LoopCatch)
       /\ WF_vars(SleepDone)

\* ------------------------------------------------------------------ indexer claims
DirtySet == SeqToSet(cycle.sortedDirtyAgents)
ProcessedSet == SeqToSet(cycle.agentIds)
PendingOnFile == {BigInt(id) : id \in SeqToSet(ckptFile.content.pendingAgentIds)}

\* the running cycle has computed its dirty set and has not ended
PastSplit == pc \in {"collect", "submit", "wait", "save"}

\* C1: a cycle that throws at any step up to and including the receipt wait
\* leaves the checkpoint file exactly as it found it
C1_NoPartialCommit ==
  (pc = "thrown" /\ failStage \in {"load", "head", "scan", "collect", "submit", "wait"})
    => ckptFile = ckptAtStart

\* a cycle over an existing checkpoint throws while waiting for the receipt
C1_Witness ==
  pc = "thrown" /\ failStage = "wait" /\ ckptFile.exists /\ txBroadcast > 0

\* C2: when a cycle has returned, the file holds the head that cycle read and,
\* as pending IDs, exactly the dirty agents that were not in its batch
C2_CheckpointAfterSuccess ==
  pc = "returned" =>
    /\ ckptFile.exists
    /\ ckptFile.content.lastProcessedBlock = cycle.latestBlock
    /\ PendingOnFile = DirtySet \ ProcessedSet
    /\ Len(ckptFile.content.pendingAgentIds) = Cardinality(PendingOnFile)

\* a cycle returns with agents queued after the chain has grown past the head it read
C2_Witness ==
  /\ pc = "returned"
  /\ PendingOnFile # {}
  /\ ProcessedSet # {}
  /\ cycle.latestBlock < getBlockNumber

\* C3: the agents a cycle queued are in the dirty set of the next cycle
C3_OverflowIsDirtyNext ==
  (PastSplit /\ prev.hasDirty) => prev.queued \subseteq DirtySet

\* the next cycle sees no new event and has the queued agent in its dirty set
C3_Witness ==
  PastSplit /\ prev.hasDirty /\ prev.queued # {} /\ cycle.newEventCount = 0

\* C4, as claimed: an agent dirty in a successful cycle is committed in that
\* cycle or in the successful cycle that follows it
C4_DeferredAtMostOneCycle ==
  (pc = "returned" /\ prev.ended = "returned") => prev.queued \subseteq ProcessedSet

\* C4, amended: an agent queued by a successful cycle is dirty in the next
\* successful cycle, and is committed there exactly when fewer than
\* maxBatchSize agents of that dirty set have a smaller ID
C4_DeferredUntilItFits ==
  (pc = "returned" /\ prev.ended = "returned") =>
    \A a \in prev.queued :
      /\ a \in DirtySet
      /\ a \in ProcessedSet <=> Cardinality({b \in DirtySet : b < a}) < maxBatchSize

\* an agent queued by one successful cycle is queued again by the next
C4_Witness ==
  /\ pc = "returned"
  /\ prev.ended = "returned"
  /\ \E a \in prev.queued : a \notin ProcessedSet /\ a \in PendingOnFile

\* C5: under startIndexer at most one cycle is in flight
C5_OneCycleInFlight == inFlight <= 1

\* a cycle is in flight after the loop has finished an earlier one
C5_Witness == inFlight = 1 /\ prev.ended # "never" /\ pc = "submit"

\* C6, as claimed: a cycle that returns has put exactly one batchUpdateScores
\* transaction on chain if it processed an agent, and none otherwise
C6_ExactlyOneSubmission ==
  pc = "returned" => txBroadcast = (IF Len(cycle.agentIds) > 0 THEN 1 ELSE 0)

\* the previous cycle threw after its batch reached the chain
FailedAfterCommit == prev.ended = "thrown" /\ prev.committed

C9_LoopSurvivesFailure == (pc = "thrown") ~> (loopPc = "await" /\ pc = "load")

\* a cycle starts after the loop has caught a failed one
C9_Witness == loopPc = "await" /\ pc = "load" /\ prev.ended = "thrown"

\* ------------------------------------------------------------------ TrustScore transactions
MaxTime == 2
MaxBatchLen == 2

\* what a caller passes for one agent, as <<score, totalFeedback,
\* positiveFeedback>>: two valid entries, a score above MAX_SCORE, and more
\* positives than totals
EntryInputs ==
  {<<400, 2, 1>>, <<900, 2, 1>>, <<MAX_SCORE + 1, 2, 1>>, <<400, 1, 2>>}

\* the array of a batch that is one element short, if any
ShortArrays == {"none", "scores", "totals", "positives"}

BoundedSeq(S, n) == UNION {[1..k -> S] : k \in 0..n}

DropLast(s) == IF Len(s) = 0 THEN s ELSE SubSeq(s, 1, Len(s) - 1)

\* the calldata arrays of a batch
BatchArray(entries, short, name) ==
  LET full == IF name = "agentIds" THEN [i \in 1..Len(entries) |-> entries[i][1]]
              ELSE IF name = "scores" THEN [i \in 1..Len(entries) |-> entries[i][2][1]]
              ELSE IF name = "totals" THEN [i \in 1..Len(entries) |-> entries[i][2][2]]
              ELSE [i \in 1..Len(entries) |-> entries[i][2][3]]
  IN  IF short = name THEN DropLast(full) ELSE full

\* a later block is mined
TsNewBlock ==
  /\ blockTimestamp < MaxTime
  /\ blockTimestamp' = blockTimestamp + 1
  /\ UNCHANGED <<_scores, registered, applied, indexerVars, clientVars, libraryVars, fileVars>>

\* the identity registry gives an agent an owner, or the zero address
TsSetOwner ==
  \E tokenId \in Agents, hasOwner \in BOOLEAN :
    /\ registered' = IF hasOwner THEN registered \cup {tokenId} ELSE registered \ {tokenId}
    /\ UNCHANGED <<_scores, blockTimestamp, applied, indexerVars, clientVars, libraryVars, fileVars>>

\* a transaction calling updateScore; a revert leaves the state as it was
TsUpdateScore ==
  \E isUpdater \in BOOLEAN, agentId \in Agents, e \in EntryInputs :
    LET r == updateScore(_scores, registered, isUpdater, agentId, e[1], e[2], e[3],
                         blockTimestamp)
    IN  IF r.reverted
        THEN UNCHANGED vars
        ELSE /\ _scores' = r.storage
             /\ applied' = NoApplied
             /\ UNCHANGED <<registered, blockTimestamp, indexerVars, clientVars, libraryVars, fileVars>>

\* a transaction calling batchUpdateScores with a batch of the caller's choice
TsBatchUpdate ==
  \E isUpdater \in BOOLEAN,
     entries \in BoundedSeq(Agents \X EntryInputs, MaxBatchLen),
     short \in ShortArrays :
    LET agentIds == BatchArray(entries, short, "agentIds")
        scores == BatchArray(entries, short, "scores")
        totals == BatchArray(entries, short, "totals")
        positives == BatchArray(entries, short, "positives")
        r == batchUpdateScores(_scores, registered, isUpdater, agentIds, scores, totals,
                               positives, blockTimestamp)
    IN  IF r.reverted
        THEN UNCHANGED vars
        ELSE /\ _scores' = r.storage
             /\ applied' = [times |-> 1, agentIds |-> agentIds, scores |-> scores,
                            totals |-> totals, positives |-> positives,
                            storage |-> r.storage, at |-> blockTimestamp]
             /\ UNCHANGED <<registered, blockTimestamp, indexerVars, clientVars, libraryVars, fileVars>>

\* a transaction calling batchUpdateScores with the batch last accepted, no
\* other update having been accepted in between
TsBatchAgain ==
  /\ applied.times = 1
  /\ \E isUpdater \in BOOLEAN :
       LET r == batchUpdateScores(_scores, registered, isUpdater, applied.agentIds,
                                  applied.scores, applied.totals, applied.positives,
                                  blockTimestamp)
       IN  IF r.reverted
           THEN UNCHANGED vars
           ELSE /\ _scores' = r.storage
                /\ applied' = [applied EXCEPT !.times = 2, !.at = blockTimestamp]
                /\ UNCHANGED <<registered, blockTimestamp, indexerVars, clientVars, libraryVars, fileVars>>

InitTrustScore == IndexerAtRest /\ ContractInit /\ ClientAtRest /\ LibraryAtRest /\ FileAtRest

NextTrustScore ==
  \/ TsNewBlock
  \/ TsSetOwner
  \/ TsUpdateScore
  \/ TsBatchUpdate
  \/ TsBatchAgain

SpecTrustScore == InitTrustScore /\ [][NextTrustScore]_vars

\* ------------------------------------------------------------------ contract claims
\* C8, as claimed: after the same batch has been applied a second time, the
\* stored records are those the first application left
C8_BatchIdempotent ==
  applied.times = 2 => _scores = applied.storage

\* C8, amended: after the same batch has been applied a second time, every
\* record has the score, totalFeedback, positiveFeedback and exists the first
\* application left; lastUpdated of the agents in the batch is the timestamp
\* of the second application, and that of the others is unchanged
C8_BatchIdempotentButTimestamp ==
  applied.times = 2 =>
    \A a \in Agents :
      /\ _scores[a].score = applied.storage[a].score
      /\ _scores[a].totalFeedback = applied.storage[a].totalFeedback
      /\ _scores[a].positiveFeedback = applied.storage[a].positiveFeedback
      /\ _scores[a].exists = applied.storage[a].exists
      /\ _scores[a].lastUpdated =
           IF a \in SeqToSet(applied.agentIds) THEN applied.at
           ELSE applied.storage[a].lastUpdated

\* a batch naming one agent twice has been applied again at a later timestamp,
\* next to a record that is not in the batch
C8_Witness ==
  /\ applied.times = 2
  /\ Len(applied.agentIds) = 2
  /\ applied.agentIds[1] = applied.agentIds[2]
  /\ applied.scores[1] # applied.scores[2]
  /\ _scores # applied.storage
  /\ \E a \in Agents \ SeqToSet(applied.agentIds) : _scores[a].exists

\* ------------------------------------------------------------------ the trust client
SOURCE == [API_PAID |-> "api_paid", API_DEMO |-> "api_demo",
           TRUSTSCORE_CONTRACT |-> "trustscore_contract"]

\* an optional flag is <<>> when it is undefined or null, else <<its value>>
Nullish(v) == v = <<>>

\* a ?? b
NullishCoalesce(a, b) == IF Nullish(a) THEN b ELSE a[1]

\* a || b on strings: the empty string is falsy, as is a missing one
OrElse(a, b) == IF a = "" THEN b ELSE a

\* mutant: a || b on the flags, so that a configured true wins over a
\* per-call false
resolveSequenceOr(requestedMode, cfg, overrides) ==
  LET baseMode == OrElse(requestedMode, cfg.defaultMode)
      allowDemoFallback ==
        (~Nullish(overrides.allowDemoFallback) /\ overrides.allowDemoFallback[1])
          \/ cfg.allowDemoFallback
      allowOnchainFallback ==
        (~Nullish(overrides.allowOnchainFallback) /\ overrides.allowOnchainFallback[1])
          \/ cfg.allowOnchainFallback
  IN  IF baseMode = SOURCE.TRUSTSCORE_CONTRACT THEN <<SOURCE.TRUSTSCORE_CONTRACT>>
      ELSE IF baseMode = SOURCE.API_DEMO
      THEN <<SOURCE.API_DEMO>>
             \o (IF allowOnchainFallback THEN <<SOURCE.TRUSTSCORE_CONTRACT>> ELSE <<>>)
      ELSE <<SOURCE.API_PAID>>
             \o (IF allowDemoFallback THEN <<SOURCE.API_DEMO>> ELSE <<>>)
             \o (IF allowOnchainFallback THEN <<SOURCE.TRUSTSCORE_CONTRACT>> ELSE <<>>)

resolveSequence(requestedMode, cfg, overrides) ==
  LET baseMode == OrElse(requestedMode, cfg.defaultMode)
      allowDemoFallback == NullishCoalesce(overrides.allowDemoFallback, cfg.allowDemoFallback)
      allowOnchainFallback ==
        NullishCoalesce(overrides.allowOnchainFallback, cfg.allowOnchainFallback)
  IN  IF baseMode = SOURCE.TRUSTSCORE_CONTRACT THEN <<SOURCE.TRUSTSCORE_CONTRACT>>
      ELSE IF baseMode = SOURCE.API_DEMO
      THEN <<SOURCE.API_DEMO>>
             \o (IF allowOnchainFallback THEN <<SOURCE.TRUSTSCORE_CONTRACT>> ELSE <<>>)
      ELSE <<SOURCE.API_PAID>>
             \o (IF allowDemoFallback THEN <<SOURCE.API_DEMO>> ELSE <<>>)
             \o (IF allowOnchainFallback THEN <<SOURCE.TRUSTSCORE_CONTRACT>> ELSE <<>>)

\* normalizeMode answers one of the three modes
ConfiguredModes == {SOURCE.API_PAID, SOURCE.API_DEMO, SOURCE.TRUSTSCORE_CONTRACT}

\* options.mode of a call: absent, a mode, or a string that is none of them
ModeInputs == {""} \cup ConfiguredModes \cup {"API_DEMO"}

FlagInputs == {<<>>, <<TRUE>>, <<FALSE>>}

\* ------------------------------------------------------------------ JavaScript values
\* a value that is undefined, null, NaN or a number; confidences are numbers
\* in units of 1/10000, the precision clampConfidence keeps (toFixed(4))
Undefined == [t |-> "undefined", v |-> 0]
JsNull == [t |-> "null", v |-> 0]
NaN == [t |-> "NaN", v |-> 0]
Num(n) == [t |-> "number", v |-> n]

ConfidenceUnit == 10000

IsNumber(x) == x.t = "number"

\* Number(value): undefined is NaN, null is 0
Number(value) ==
  IF value.t = "undefined" THEN NaN
  ELSE IF value.t = "null" THEN Num(0)
  ELSE value

\* a ?? b on values
Coalesce(a, b) == IF a.t \in {"undefined", "null"} THEN b ELSE a

toNumber(value) ==
  LET parsed == Number(value)
  IN  IF ~IsNumber(parsed) THEN JsNull ELSE parsed

toNonNegativeNumber(value) ==
  LET parsed == toNumber(value)
  IN  IF parsed = JsNull \/ parsed.v < 0 THEN JsNull ELSE parsed

\* ------------------------------------------------------------------ types.js
STATUS == [OK |-> "ok", DEGRADED |-> "degraded", ERROR |-> "error"]

VERDICT == [TRUSTED |-> "TRUSTED", CAUTION |-> "CAUTION", DANGEROUS |-> "DANGEROUS",
            UNKNOWN |-> "UNKNOWN"]

RECOMMENDATION == [PROCEED |-> "proceed", MANUAL_REVIEW |-> "manual_review",
                   ABORT |-> "abort"]

resolveVerdict(score) ==
  IF ~IsNumber(score) THEN VERDICT.UNKNOWN
  ELSE IF score.v > 700 THEN VERDICT.TRUSTED
  ELSE IF score.v >= 400 THEN VERDICT.CAUTION
  ELSE VERDICT.DANGEROUS

\* mutant: UNKNOWN falls through to abort
resolveRecommendationStrict(verdict) ==
  IF verdict = VERDICT.TRUSTED THEN RECOMMENDATION.PROCEED
  ELSE IF verdict = VERDICT.CAUTION THEN RECOMMENDATION.MANUAL_REVIEW
  ELSE RECOMMENDATION.ABORT

resolveRecommendation(verdict) ==
  IF verdict = VERDICT.TRUSTED THEN RECOMMENDATION.PROCEED
  ELSE IF verdict = VERDICT.CAUTION \/ verdict = VERDICT.UNKNOWN
  THEN RECOMMENDATION.MANUAL_REVIEW
  ELSE RECOMMENDATION.ABORT

clampConfidence(value) ==
  IF ~IsNumber(value) THEN JsNull
  ELSE IF value.v < 0 THEN Num(0)
  ELSE IF value.v > ConfidenceUnit THEN Num(ConfidenceUnit)
  ELSE value

\* ------------------------------------------------------------------ fallbacks.js
FALLBACK_CODE ==
  [ORACLE_UNAVAILABLE |-> "oracle_unavailable", API_TIMEOUT |-> "api_timeout",
   PAYMENT_UNAVAILABLE |-> "payment_unavailable", RPC_UNAVAILABLE |-> "rpc_unavailable",
   AGENT_NOT_FOUND |-> "agent_not_found", INVALID_AGENT_ID |-> "invalid_agent_id"]

\* an error is [statusCode, name, code, message]; message is the set of the
\* words the classifiers look for that the error's message contains
isTimeoutError(error) ==
  \/ error.name = "AbortError"
  \/ error.code = "ABORT_ERR"
  \/ "timeout" \in error.message

isRpcErrorMessage(error) ==
  \/ "network" \in error.message
  \/ "socket" \in error.message
  \/ "connect" \in error.message
  \/ "rpc" \in error.message

isCallException(error) ==
  \/ error.code = "CALL_EXCEPTION"
  \/ "execution reverted" \in error.message

\* mutant: the timeout rule is tried before the status rules
mapApiFailureTimeoutFirst(statusCode, error) ==
  IF isTimeoutError(error) THEN FALLBACK_CODE.API_TIMEOUT
  ELSE IF statusCode = Num(404) THEN FALLBACK_CODE.AGENT_NOT_FOUND
  ELSE IF statusCode = Num(402) THEN FALLBACK_CODE.PAYMENT_UNAVAILABLE
  ELSE IF IsNumber(statusCode) /\ statusCode.v >= 500 THEN FALLBACK_CODE.ORACLE_UNAVAILABLE
  ELSE FALLBACK_CODE.ORACLE_UNAVAILABLE

mapApiFailure(statusCode, error) ==
  IF statusCode = Num(404) THEN FALLBACK_CODE.AGENT_NOT_FOUND
  ELSE IF statusCode = Num(402) THEN FALLBACK_CODE.PAYMENT_UNAVAILABLE
  ELSE IF IsNumber(statusCode) /\ statusCode.v >= 500 THEN FALLBACK_CODE.ORACLE_UNAVAILABLE
  ELSE IF isTimeoutError(error) THEN FALLBACK_CODE.API_TIMEOUT
  ELSE FALLBACK_CODE.ORACLE_UNAVAILABLE

\* mutant: the timeout and RPC rule is tried before the revert rule
mapContractFailureRpcFirst(error) ==
  IF isTimeoutError(error) \/ isRpcErrorMessage(error) THEN FALLBACK_CODE.RPC_UNAVAILABLE
  ELSE IF isCallException(error) THEN FALLBACK_CODE.AGENT_NOT_FOUND
  ELSE FALLBACK_CODE.ORACLE_UNAVAILABLE

mapContractFailure(error) ==
  IF isCallException(error) THEN FALLBACK_CODE.AGENT_NOT_FOUND
  ELSE IF isTimeoutError(error) \/ isRpcErrorMessage(error) THEN FALLBACK_CODE.RPC_UNAVAILABLE
  ELSE FALLBACK_CODE.ORACLE_UNAVAILABLE

\* an envelope field that holds a string or null is <<>> for null and
\* <<the string>> otherwise; error is <<>> or <<[code, message]>>.
\* timingMs, timestamp and correlationId are the clock's and the generator's:
\* the model fixes them
buildStructuredFailure(agentId, source, fallback, status, message) ==
  [status |-> status,
   agentId |-> agentId,
   score |-> JsNull,
   confidence |-> JsNull,
   verdict |-> VERDICT.UNKNOWN,
   recommendation |-> RECOMMENDATION.MANUAL_REVIEW,
   source |-> source,
   fallback |-> <<fallback>>,
   error |-> <<[code |-> fallback, message |-> message]>>,
   timingMs |-> 0,
   timestamp |-> 0,
   correlationId |-> 0]

\* mutant: the degraded envelope keeps the null fallback of the success
withDegradedContextNoFallback(response, fallbackCode, fallbackMessage) ==
  [response EXCEPT !.status = STATUS.DEGRADED,
                   !.error = <<[code |-> fallbackCode, message |-> fallbackMessage]>>]

withDegradedContext(response, fallbackCode, fallbackMessage) ==
  [response EXCEPT !.status = STATUS.DEGRADED,
                   !.fallback = <<fallbackCode>>,
                   !.error = <<[code |-> fallbackCode, message |-> fallbackMessage]>>]

\* ------------------------------------------------------------------ validation.js
DigitChars == <<"0", "1", "2", "3", "4", "5", "6", "7", "8", "9">>

IsDigit(c) == \E i \in 1..10 : DigitChars[i] = c

DigitValue(c) == (CHOOSE i \in 1..10 : DigitChars[i] = c) - 1

\* the decimal digits of (1n << 256n) - 1n
UINT256_MAX ==
  <<1,1,5,7,9,2,0,8,9,2,3,7,3,1,6,1,9,5,4,2,3,5,7,0,9,8,5,0,0,8,6,8,7,9,0,7,8,5,3,
    2,6,9,9,8,4,6,6,5,6,4,0,5,6,4,0,3,9,4,5,7,5,8,4,0,0,7,9,1,3,1,2,9,6,3,9,9,3,5>>

\* BigInt(rawAgentId) of a string of digits, as its digits without leading zeros
RECURSIVE StripZeros(_)
StripZeros(digits) ==
  IF Len(digits) > 1 /\ digits[1] = 0 THEN StripZeros(Tail(digits)) ELSE digits

BigIntOfChars(chars) == StripZeros([i \in 1..Len(chars) |-> DigitValue(chars[i])])

\* a > b on two digit sequences without leading zeros
GreaterThan(a, b) ==
  \/ Len(a) > Len(b)
  \/ /\ Len(a) = Len(b)
     /\ \E i \in 1..Len(a) :
          /\ a[i] > b[i]
          /\ \A j \in 1..(i - 1) : a[j] = b[j]

\* parseAgentIdParam: [threw, agentId], the ID as digits
parseAgentIdParam(rawAgentId) ==
  IF Len(rawAgentId) = 0 THEN [threw |-> TRUE, agentId |-> <<>>]
  ELSE IF \E i \in 1..Len(rawAgentId) : ~IsDigit(rawAgentId[i])
  THEN [threw |-> TRUE, agentId |-> <<>>]
  ELSE LET agentId == BigIntOfChars(rawAgentId)
       IN  IF GreaterThan(agentId, UINT256_MAX) THEN [threw |-> TRUE, agentId |-> <<>>]
           ELSE [threw |-> FALSE, agentId |-> agentId]

\* bigint.toString(): the characters of the digits
DigitsToChars(digits) == [i \in 1..Len(digits) |-> DigitChars[digits[i] + 1]]

\* String(rawAgentId) of a raw ID that is <<>> (undefined) or <<its characters>>
StringOfRaw(raw) ==
  IF raw = <<>> THEN <<"u", "n", "d", "e", "f", "i", "n", "e", "d">> ELSE raw[1]

\* ------------------------------------------------------------------ client.js
DefaultConfidenceThresholdFeedbackCount == 50
DefaultNegativeFlagThresholdBps == 2000

confidenceFromBand(band) ==
  IF band = "high" THEN Num(ConfidenceUnit)
  ELSE IF band = "low" THEN Num(4000)
  ELSE IF band = "none" THEN Num(0)
  ELSE JsNull

deriveConfidence(totalFeedback, threshold) ==
  LET total == toNonNegativeNumber(totalFeedback)
  IN  IF total = JsNull THEN JsNull
      ELSE IF threshold <= 0 THEN Num(ConfidenceUnit)
      ELSE IF total.v > threshold THEN Num(ConfidenceUnit)
      ELSE clampConfidence(Num(Round(total.v * ConfidenceUnit, threshold)))

\* the record a contract read answers, its fields converted with Number
parseDetailedRecord(rawRecord) ==
  [score |-> rawRecord.score, totalFeedback |-> rawRecord.totalFeedback,
   positiveFeedback |-> rawRecord.positiveFeedback, lastUpdated |-> rawRecord.lastUpdated,
   exists |-> rawRecord.exists]

buildReportAnalytics(record, thresholdCount, thresholdBps) ==
  LET total == record.totalFeedback
      positive == Max(0, Min(record.positiveFeedback, total))
      negative == Max(0, total - positive)
      negativeRateBps == IF total = 0 THEN 0 ELSE Round(negative * 10000, total)
      flagged == total > 0 /\ negativeRateBps > thresholdBps
  IN  [negativeRateBps |-> negativeRateBps,
       flagged |-> flagged,
       riskFactors |->
         (IF total < thresholdCount THEN {"low_feedback_volume"} ELSE {})
           \cup (IF flagged THEN {"high_negative_feedback_ratio"} ELSE {})
           \cup (IF record.score < 500 THEN {"low_trust_score"} ELSE {})]

\* the extras of an envelope: a field a source does not give is Undefined
\* (flagged: <<>>); the strings passed through unread (note, meta,
\* recentTrend, lastUpdated) are left to the caller
NoExtras ==
  [totalFeedback |-> Undefined, positiveFeedback |-> Undefined,
   negativeRateBps |-> Undefined, flagged |-> <<>>, riskFactors |-> {}, demo |-> FALSE]

\* buildSuccessResponse as queryTrust calls it: status, fallback and error
\* take their defaults
buildSuccessResponse(agentId, score, confidence, source, data) ==
  LET normalizedScore == toNonNegativeNumber(score)
      normalizedConfidence == clampConfidence(toNumber(confidence))
      hasNoHistory ==
        /\ normalizedScore = Num(0)
        /\ \/ /\ toNonNegativeNumber(data.totalFeedback) = Num(0)
              /\ toNonNegativeNumber(data.positiveFeedback) = Num(0)
           \/ normalizedConfidence = Num(0)
      verdict == IF hasNoHistory THEN VERDICT.UNKNOWN ELSE resolveVerdict(normalizedScore)
  IN  [status |-> STATUS.OK, agentId |-> agentId, score |-> normalizedScore,
       confidence |-> normalizedConfidence, verdict |-> verdict,
       recommendation |-> resolveRecommendation(verdict), source |-> source,
       fallback |-> <<>>, error |-> <<>>, timingMs |-> 0, timestamp |-> 0,
       correlationId |-> 0, data |-> data]

\* queryApi once requestJson has answered body
queryApi(kind, body, source, thresholdCount) ==
  IF kind = "score"
  THEN [score |-> toNonNegativeNumber(body.score),
        confidence |->
          Coalesce(toNumber(body.confidence),
                   Coalesce(confidenceFromBand(body.confidenceBand),
                            deriveConfidence(body.totalFeedback, thresholdCount))),
        data |-> [NoExtras EXCEPT !.demo = body.demo]]
  ELSE LET totalFeedback == toNonNegativeNumber(body.totalFeedback)
           positiveFeedback == toNonNegativeNumber(body.positiveFeedback)
       IN  [score |-> toNonNegativeNumber(body.score),
            confidence |->
              Coalesce(toNumber(body.confidence),
                       Coalesce(confidenceFromBand(body.confidenceBand),
                                deriveConfidence(totalFeedback, thresholdCount))),
            data |-> [totalFeedback |-> totalFeedback,
                      positiveFeedback |-> positiveFeedback,
                      negativeRateBps |-> toNonNegativeNumber(body.negativeRateBps),
                      flagged |-> body.flagged,
                      riskFactors |-> body.riskFactors,
                      demo |-> body.demo]]

\* queryContract once the reader has answered rawRecord
queryContract(kind, rawRecord, thresholdCount, thresholdBps) ==
  LET record == parseDetailedRecord(rawRecord)
      analytics == buildReportAnalytics(record, thresholdCount, thresholdBps)
      confidence == deriveConfidence(Num(record.totalFeedback), thresholdCount)
  IN  IF kind = "score"
      THEN [score |-> Num(record.score), confidence |-> confidence, data |-> NoExtras]
      ELSE [score |-> Num(record.score), confidence |-> confidence,
            data |-> [totalFeedback |-> Num(record.totalFeedback),
                      positiveFeedback |-> Num(record.positiveFeedback),
                      negativeRateBps |-> Num(analytics.negativeRateBps),
                      flagged |-> <<analytics.flagged>>,
                      riskFactors |-> analytics.riskFactors,
                      demo |-> FALSE]]

\* ------------------------------------------------------------------ actions.js
\* evaluateAgentRisk: the report with an evaluation added
evaluateAgentRisk(report) ==
  LET evaluation ==
        [verdict |-> report.verdict,
         recommendation |-> report.recommendation,
         flagged |-> IF "data" \in DOMAIN report THEN report.data.flagged ELSE <<>>,
         riskFactors |-> IF "data" \in DOMAIN report THEN report.data.riskFactors ELSE {}]
  IN  [f \in DOMAIN report \cup {"evaluation"} |->
         IF f = "evaluation" THEN evaluation ELSE report[f]]

\* what the action called returns for the envelope queryTrust returned
ActionResult(api, response) ==
  IF api = "evaluateAgentRisk" THEN evaluateAgentRisk(response) ELSE response

\* ------------------------------------------------------------------ what a source answers
HttpError(statusCode, message) ==
  [statusCode |-> Num(statusCode), name |-> "Error", code |-> "", message |-> message]

ThrownError(name, code, message) ==
  [statusCode |-> Undefined, name |-> name, code |-> code, message |-> message]

\* requestJson throws buildHttpError for a response that is not ok, or what
\* fetch rejected with: the abort of the timer, or a network failure
ApiErrors ==
  {HttpError(404, {}), HttpError(402, {}), HttpError(500, {}), HttpError(504, {"timeout"}),
   HttpError(408, {"timeout"}), HttpError(400, {}),
   ThrownError("AbortError", "ABORT_ERR", {}), ThrownError("TypeError", "", {"network"})}

PaidFetchErrorWithoutStatus == ThrownError("Error", "", {})

\* createPaidFetch throws when no private key is configured: an Error with
\* statusCode 402
PaidFetchError == HttpError(402, {})

\* the contract reader throws a revert, an RPC failure, a timeout, or
\* something else
ContractErrors ==
  {ThrownError("Error", "CALL_EXCEPTION", {"execution reverted"}),
   ThrownError("Error", "NETWORK_ERROR", {"network"}),
   ThrownError("Error", "TIMEOUT", {"timeout"}),
   ThrownError("Error", "", {"execution reverted", "rpc"}),
   ThrownError("Error", "ECONNRESET", {"socket"}),
   ThrownError("Error", "", {"connect"}),
   ThrownError("TypeError", "", {})}

\* the fields of a JSON body the client reads; a body that gives confidence
\* without counters, counters without confidence, or both
BodyShapes ==
  {[confidence |-> Num(9000), totalFeedback |-> Undefined, positiveFeedback |-> Undefined],
   [confidence |-> Undefined, totalFeedback |-> Num(0), positiveFeedback |-> Num(0)],
   [confidence |-> Undefined, totalFeedback |-> Num(80), positiveFeedback |-> Num(70)],
   [confidence |-> Num(0), totalFeedback |-> Num(80), positiveFeedback |-> Num(70)]}

BodyScores == {Undefined, Num(0), Num(399), Num(400), Num(700), Num(701)}

ApiBodies ==
  {[score |-> s, confidence |-> b.confidence, confidenceBand |-> "",
    totalFeedback |-> b.totalFeedback, positiveFeedback |-> b.positiveFeedback,
    negativeRateBps |-> Undefined, flagged |-> <<>>, riskFactors |-> {}, demo |-> FALSE] :
     s \in BodyScores, b \in BodyShapes}

\* the records getDetailedReport answers
RawRecords ==
  {[score |-> 0, totalFeedback |-> 0, positiveFeedback |-> 0, lastUpdated |-> 0,
    exists |-> FALSE],
   [score |-> 0, totalFeedback |-> 5, positiveFeedback |-> 0, lastUpdated |-> 1,
    exists |-> TRUE],
   [score |-> 399, totalFeedback |-> 80, positiveFeedback |-> 30, lastUpdated |-> 1,
    exists |-> TRUE],
   [score |-> 400, totalFeedback |-> 80, positiveFeedback |-> 40, lastUpdated |-> 1,
    exists |-> TRUE],
   [score |-> 700, totalFeedback |-> 60, positiveFeedback |-> 35, lastUpdated |-> 1,
    exists |-> TRUE],
   [score |-> 701, totalFeedback |-> 80, positiveFeedback |-> 70, lastUpdated |-> 1,
    exists |-> TRUE]}

\* the agent IDs a caller passes: <<>> for none, else <<its characters>>
RawAgentIds ==
  {<<>>, <<<<>>>>, <<<<"a", "b", "c">>>>, <<<<"-", "1">>>>, <<<<"0", "7">>>>,
   <<DigitsToChars(UINT256_MAX)>>,
   <<DigitsToChars([UINT256_MAX EXCEPT ![Len(UINT256_MAX)] = 6])>>}

ActionNames == {"queryTrustScore", "queryTrustReport", "evaluateAgentRisk"}

\* ------------------------------------------------------------------ queryTrust
CurrentSource == sequence[idx]

\* the remote call an attempt of a source makes
RemoteCall(source) ==
  IF source = SOURCE.TRUSTSCORE_CONTRACT THEN "contract_read"
  ELSE IF source = SOURCE.API_PAID THEN "paid_http"
  ELSE "demo_http"

\* loadAgentKitConfig, for every setting of the three environment variables
ClientInit ==
  /\ clientPc = "idle"
  /\ config \in [defaultMode : ConfiguredModes, allowDemoFallback : BOOLEAN,
                 allowOnchainFallback : BOOLEAN]
  /\ options = [mode |-> "", allowDemoFallback |-> <<>>, allowOnchainFallback |-> <<>>]
  /\ sequence = <<>>
  /\ QueryAtRest
  /\ paidFetch = "undefined"
  /\ factoryLog = <<>>

\* an action of the client is called with an agent ID and some options
QueryTrustCall ==
  /\ clientPc = "idle"
  /\ options' \in [mode : ModeInputs, allowDemoFallback : FlagInputs,
                   allowOnchainFallback : FlagInputs]
  /\ \E api \in ActionNames, rawAgentId \in RawAgentIds :
       call' = [api |-> api,
                kind |-> IF api = "queryTrustScore" THEN "score" ELSE "report",
                rawAgentId |-> rawAgentId]
  /\ clientPc' = "called"
  /\ UNCHANGED <<config, sequence, parsedAgentId, idx, priorFailure, lastError, failures, answer, attempted,
                 pending, calls, envelope, paidFetch, factoryLog, indexerVars, contractVars, libraryVars, fileVars>>

\* const requestedMode = options.mode || config.defaultMode;
\* const sequence = resolveSequence(requestedMode, config, options);
QueryTrustResolve ==
  /\ clientPc = "called"
  /\ LET requestedMode == OrElse(options.mode, config.defaultMode)
     IN  sequence' = resolveSequence(requestedMode, config, options)
  /\ clientPc' = "resolved"
  /\ UNCHANGED <<config, options, queryVars, paidFetch, factoryLog, indexerVars, contractVars, libraryVars, fileVars>>

\* sequence[0] || requestedMode || SOURCE.API_PAID
FirstSource ==
  IF Len(sequence) > 0 THEN sequence[1]
  ELSE OrElse(OrElse(options.mode, config.defaultMode), SOURCE.API_PAID)

\* sequence[sequence.length - 1] || SOURCE.API_PAID
LastSource == IF Len(sequence) > 0 THEN sequence[Len(sequence)] ELSE SOURCE.API_PAID

\* priorFailure?.code || FALLBACK_CODE.ORACLE_UNAVAILABLE
PriorFailureCode ==
  IF priorFailure = <<>> THEN FALLBACK_CODE.ORACLE_UNAVAILABLE ELSE priorFailure[1].code

\* priorFailure?.message || "No available trust data source succeeded"
PriorFailureMessage == IF priorFailure = <<>> THEN {} ELSE priorFailure[1].message

\* mutant: the failure of the validation keeps buildStructuredFailure's
\* default status
QueryTrustValidateDefaultStatus ==
  /\ clientPc = "resolved"
  /\ LET parsed == parseAgentIdParam(StringOfRaw(call.rawAgentId))
     IN  IF parsed.threw
         THEN /\ envelope' =
                   ActionResult(call.api,
                     buildStructuredFailure(call.rawAgentId, FirstSource,
                                            FALLBACK_CODE.INVALID_AGENT_ID, STATUS.DEGRADED,
                                            {}))
              /\ clientPc' = "answered"
              /\ UNCHANGED <<parsedAgentId, idx>>
         ELSE /\ parsedAgentId' = <<DigitsToChars(parsed.agentId)>>
              /\ idx' = 1
              /\ clientPc' = "loop"
              /\ UNCHANGED envelope
  /\ options' = [mode |-> "", allowDemoFallback |-> <<>>, allowOnchainFallback |-> <<>>]
  /\ UNCHANGED <<config, sequence, call, priorFailure, lastError, failures, answer, attempted,
                 pending, calls, paidFetch, factoryLog, indexerVars, contractVars, libraryVars, fileVars>>

\* parsedAgentId = parseAgentIdParam(String(rawAgentId)).toString(), or the
\* structured error of an invalid ID; sequence is never empty, so its first
\* source is the envelope's
\* options is read for the last time here (requestedMode): the model drops it
QueryTrustValidate ==
  /\ clientPc = "resolved"
  /\ LET parsed == parseAgentIdParam(StringOfRaw(call.rawAgentId))
     IN  IF parsed.threw
         THEN /\ envelope' =
                   ActionResult(call.api,
                     buildStructuredFailure(call.rawAgentId, FirstSource,
                                            FALLBACK_CODE.INVALID_AGENT_ID, STATUS.ERROR,
                                            {}))
              /\ clientPc' = "answered"
              /\ UNCHANGED <<parsedAgentId, idx>>
         ELSE /\ parsedAgentId' = <<DigitsToChars(parsed.agentId)>>
              /\ idx' = 1
              /\ clientPc' = "loop"
              /\ UNCHANGED envelope
  /\ options' = [mode |-> "", allowDemoFallback |-> <<>>, allowOnchainFallback |-> <<>>]
  /\ UNCHANGED <<config, sequence, call, priorFailure, lastError, failures, answer, attempted,
                 pending, calls, paidFetch, factoryLog, indexerVars, contractVars, libraryVars, fileVars>>

\* for (const source of sequence): the next source is attempted
AttemptStart ==
  /\ clientPc = "loop"
  /\ idx <= Len(sequence)
  /\ attempted' = Append(attempted, CurrentSource)
  /\ pending' = pending \cup {CurrentSource}
  /\ clientPc' = "attempt"
  /\ UNCHANGED <<config, options, sequence, call, parsedAgentId, idx, priorFailure, lastError, failures, answer,
                 calls, envelope, paidFetch, factoryLog, indexerVars, contractVars, libraryVars, fileVars>>

\* how many calls of paidFetchFactory of one client are followed
MaxFactoryCalls == 2

\* getPaidFetch finds no fetcher and calls paidFetchFactory
FactoryInvoked == CurrentSource = SOURCE.API_PAID /\ paidFetch = "undefined"

\* mutant: getPaidFetch does not keep the fetcher the factory returned
PaidFetchAfterNotKept(source, fetch) == fetch

\* paidFetch once requestJson has called its caller: the fetcher getPaidFetch
\* returned is kept
PaidFetchAfter(source, fetch) == IF source = SOURCE.API_PAID THEN "built" ELSE fetch

\* the calls an attempt makes before its source answers: the paid source
\* builds its fetcher when the client has none yet
CallsOfAttempt ==
  calls \o (IF CurrentSource = SOURCE.API_PAID /\ paidFetch = "undefined"
            THEN <<"paidFetchFactory">> ELSE <<>>)
        \o <<RemoteCall(CurrentSource)>>

\* mutant: the failures before the success are not reported
SuccessEnvelopeIgnoringFailures(result) ==
  buildSuccessResponse(parsedAgentId, result.score, result.confidence, CurrentSource,
                       result.data)

\* the envelope of a successful attempt
SuccessEnvelope(result) ==
  LET response == buildSuccessResponse(parsedAgentId, result.score, result.confidence,
                                       CurrentSource, result.data)
  IN  IF priorFailure # <<>>
      THEN withDegradedContext(response, priorFailure[1].code, priorFailure[1].message)
      ELSE response

\* the source answers: queryTrust returns the success envelope
AttemptSucceeds ==
  /\ clientPc = "attempt"
  /\ \E result \in
          IF CurrentSource = SOURCE.TRUSTSCORE_CONTRACT
          THEN {queryContract(call.kind, rawRecord, DefaultConfidenceThresholdFeedbackCount,
                              DefaultNegativeFlagThresholdBps) : rawRecord \in RawRecords}
          ELSE {queryApi(call.kind, [body EXCEPT !.demo = CurrentSource = SOURCE.API_DEMO],
                         CurrentSource, DefaultConfidenceThresholdFeedbackCount) :
                  body \in ApiBodies} :
       /\ answer' = <<result>>
       /\ envelope' = ActionResult(call.api, SuccessEnvelope(result))
  /\ calls' = CallsOfAttempt
  /\ FactoryInvoked => Len(factoryLog) < MaxFactoryCalls
  /\ factoryLog' = IF FactoryInvoked THEN Append(factoryLog, "built") ELSE factoryLog
  /\ paidFetch' = PaidFetchAfter(CurrentSource, paidFetch)
  /\ pending' = pending \ {CurrentSource}
  /\ clientPc' = "answered"
  /\ UNCHANGED <<config, options, sequence, call, parsedAgentId, idx, priorFailure, lastError, failures,
                 attempted, indexerVars, contractVars, libraryVars, fileVars>>

\* mutant: the failed source is attempted again
AttemptFailsAndRepeats ==
  /\ clientPc = "attempt"
  /\ Len(attempted) < 4
  /\ \E error \in (IF CurrentSource = SOURCE.TRUSTSCORE_CONTRACT THEN ContractErrors
                   ELSE ApiErrors) :
       /\ lastError' = <<error>>
       /\ failures' = Append(failures, IF CurrentSource = SOURCE.TRUSTSCORE_CONTRACT
                                        THEN mapContractFailure(error)
                                        ELSE mapApiFailure(error.statusCode, error))
       /\ priorFailure' =
            <<[code |-> IF CurrentSource = SOURCE.TRUSTSCORE_CONTRACT
                        THEN mapContractFailure(error)
                        ELSE mapApiFailure(error.statusCode, error),
               message |-> error.message]>>
  /\ calls' = CallsOfAttempt
  /\ FactoryInvoked => Len(factoryLog) < MaxFactoryCalls
  /\ factoryLog' = IF FactoryInvoked THEN Append(factoryLog, "built") ELSE factoryLog
  /\ paidFetch' = PaidFetchAfter(CurrentSource, paidFetch)
  /\ pending' = pending \ {CurrentSource}
  /\ clientPc' = "loop"
  /\ UNCHANGED <<answer, config, options, sequence, call, parsedAgentId, idx, attempted, envelope,
                 indexerVars, contractVars, libraryVars, fileVars>>

\* mutant: the classification of the first failure is the one kept
AttemptFailsKeepsFirst ==
  /\ clientPc = "attempt"
  /\ \E error \in (IF CurrentSource = SOURCE.TRUSTSCORE_CONTRACT THEN ContractErrors
                   ELSE ApiErrors) :
       /\ lastError' = <<error>>
       /\ failures' = Append(failures, IF CurrentSource = SOURCE.TRUSTSCORE_CONTRACT
                                        THEN mapContractFailure(error)
                                        ELSE mapApiFailure(error.statusCode, error))
       /\ priorFailure' =
            IF priorFailure # <<>> THEN priorFailure
            ELSE <<[code |-> IF CurrentSource = SOURCE.TRUSTSCORE_CONTRACT
                             THEN mapContractFailure(error)
                             ELSE mapApiFailure(error.statusCode, error),
                    message |-> error.message]>>
  /\ calls' = CallsOfAttempt
  /\ FactoryInvoked => Len(factoryLog) < MaxFactoryCalls
  /\ factoryLog' = IF FactoryInvoked THEN Append(factoryLog, "built") ELSE factoryLog
  /\ paidFetch' = PaidFetchAfter(CurrentSource, paidFetch)
  /\ pending' = pending \ {CurrentSource}
  /\ idx' = idx + 1
  /\ clientPc' = "loop"
  /\ UNCHANGED <<answer, config, options, sequence, call, parsedAgentId, attempted, envelope,
                 indexerVars, contractVars, libraryVars, fileVars>>

\* mutant: what the last source of the sequence throws is not caught
AttemptFailsUncaughtAtLast ==
  /\ clientPc = "attempt"
  /\ \E error \in (IF CurrentSource = SOURCE.TRUSTSCORE_CONTRACT THEN ContractErrors
                   ELSE ApiErrors) :
       /\ lastError' = <<error>>
       /\ failures' = IF idx = Len(sequence) THEN failures
                      ELSE Append(failures, IF CurrentSource = SOURCE.TRUSTSCORE_CONTRACT
                                            THEN mapContractFailure(error)
                                            ELSE mapApiFailure(error.statusCode, error))
       /\ priorFailure' =
            IF idx = Len(sequence) THEN priorFailure
            ELSE <<[code |-> IF CurrentSource = SOURCE.TRUSTSCORE_CONTRACT
                             THEN mapContractFailure(error)
                             ELSE mapApiFailure(error.statusCode, error),
                    message |-> error.message]>>
  /\ calls' = CallsOfAttempt
  /\ FactoryInvoked => Len(factoryLog) < MaxFactoryCalls
  /\ factoryLog' = IF FactoryInvoked THEN Append(factoryLog, "built") ELSE factoryLog
  /\ paidFetch' = PaidFetchAfter(CurrentSource, paidFetch)
  /\ pending' = pending \ {CurrentSource}
  /\ idx' = idx + 1
  /\ clientPc' = IF idx = Len(sequence) THEN "rejected" ELSE "loop"
  /\ UNCHANGED <<answer, config, options, sequence, call, parsedAgentId, attempted, envelope,
                 indexerVars, contractVars, libraryVars, fileVars>>

\* the source throws: the failure is classified and the loop goes on
AttemptFails ==
  /\ clientPc = "attempt"
  /\ \E error \in (IF CurrentSource = SOURCE.TRUSTSCORE_CONTRACT THEN ContractErrors
                   ELSE ApiErrors) :
       /\ lastError' = <<error>>
       /\ failures' = Append(failures, IF CurrentSource = SOURCE.TRUSTSCORE_CONTRACT
                                        THEN mapContractFailure(error)
                                        ELSE mapApiFailure(error.statusCode, error))
       /\ priorFailure' =
            <<[code |-> IF CurrentSource = SOURCE.TRUSTSCORE_CONTRACT
                        THEN mapContractFailure(error)
                        ELSE mapApiFailure(error.statusCode, error),
               message |-> error.message]>>
  /\ calls' = CallsOfAttempt
  /\ FactoryInvoked => Len(factoryLog) < MaxFactoryCalls
  /\ factoryLog' = IF FactoryInvoked THEN Append(factoryLog, "built") ELSE factoryLog
  /\ paidFetch' = PaidFetchAfter(CurrentSource, paidFetch)
  /\ pending' = pending \ {CurrentSource}
  /\ idx' = idx + 1
  /\ clientPc' = "loop"
  /\ UNCHANGED <<answer, config, options, sequence, call, parsedAgentId, attempted, envelope,
                 indexerVars, contractVars, libraryVars, fileVars>>

\* getPaidFetch throws: no request is sent and no fetcher is kept
PaidFetchFactoryThrows ==
  /\ clientPc = "attempt"
  /\ CurrentSource = SOURCE.API_PAID
  /\ paidFetch = "undefined"
  /\ Len(factoryLog) < MaxFactoryCalls
  /\ factoryLog' = Append(factoryLog, "threw")
  /\ lastError' = <<PaidFetchError>>
  /\ failures' = Append(failures, mapApiFailure(PaidFetchError.statusCode, PaidFetchError))
  /\ priorFailure' =
       <<[code |-> mapApiFailure(PaidFetchError.statusCode, PaidFetchError),
          message |-> PaidFetchError.message]>>
  /\ calls' = Append(calls, "paidFetchFactory")
  /\ pending' = pending \ {CurrentSource}
  /\ idx' = idx + 1
  /\ clientPc' = "loop"
  /\ UNCHANGED <<answer, config, options, sequence, call, parsedAgentId, attempted, envelope, paidFetch,
                 indexerVars, contractVars, libraryVars, fileVars>>

\* mutant: the failure of every source is reported for the first source
AllSourcesFailedFirstSource ==
  /\ clientPc = "loop"
  /\ idx > Len(sequence)
  /\ envelope' =
       ActionResult(call.api,
         buildStructuredFailure(parsedAgentId, FirstSource, PriorFailureCode,
                                IF PriorFailureCode = FALLBACK_CODE.AGENT_NOT_FOUND
                                THEN STATUS.ERROR ELSE STATUS.DEGRADED,
                                PriorFailureMessage))
  /\ clientPc' = "answered"
  /\ UNCHANGED <<config, options, sequence, call, parsedAgentId, idx, priorFailure, lastError, failures, answer,
                 attempted, pending, calls, paidFetch, factoryLog, indexerVars, contractVars, libraryVars, fileVars>>

\* every source has failed: the structured failure of the last one
AllSourcesFailed ==
  /\ clientPc = "loop"
  /\ idx > Len(sequence)
  /\ envelope' =
       ActionResult(call.api,
         buildStructuredFailure(parsedAgentId, LastSource, PriorFailureCode,
                                IF PriorFailureCode = FALLBACK_CODE.AGENT_NOT_FOUND
                                THEN STATUS.ERROR ELSE STATUS.DEGRADED,
                                PriorFailureMessage))
  /\ clientPc' = "answered"
  /\ UNCHANGED <<config, options, sequence, call, parsedAgentId, idx, priorFailure, lastError, failures, answer,
                 attempted, pending, calls, paidFetch, factoryLog, indexerVars, contractVars, libraryVars, fileVars>>

\* the caller has its envelope: the locals of the call are gone, the client
\* keeps its configuration and its paid fetcher
QueryTrustReturn ==
  /\ clientPc = "answered"
  /\ clientPc' = "idle"
  /\ options' = [mode |-> "", allowDemoFallback |-> <<>>, allowOnchainFallback |-> <<>>]
  /\ sequence' = <<>>
  /\ call' = NoCall
  /\ parsedAgentId' = <<>>
  /\ idx' = 0
  /\ priorFailure' = <<>>
  /\ lastError' = <<>>
  /\ failures' = <<>>
  /\ answer' = <<>>
  /\ attempted' = <<>>
  /\ pending' = {}
  /\ calls' = <<>>
  /\ envelope' = NoEnvelope
  /\ UNCHANGED <<config, paidFetch, factoryLog, indexerVars, contractVars, libraryVars, fileVars>>

InitClient == IndexerAtRest /\ ContractInit /\ ClientInit /\ LibraryAtRest /\ FileAtRest

NextClient ==
  \/ QueryTrustCall
  \/ QueryTrustResolve
  \/ QueryTrustValidate
  \/ AttemptStart
  \/ AttemptSucceeds
  \/ AttemptFails
  \/ PaidFetchFactoryThrows
  \/ AllSourcesFailed
  \/ QueryTrustReturn

SpecClient == InitClient /\ [][NextClient]_vars

\* ------------------------------------------------------------------ client claims
\* the mode and the flags in force for the call: what the call passes wins
\* over what is configured
ModeInForce == IF options.mode # "" THEN options.mode ELSE config.defaultMode
DemoInForce ==
  IF options.allowDemoFallback = <<TRUE>> THEN TRUE
  ELSE IF options.allowDemoFallback = <<FALSE>> THEN FALSE
  ELSE config.allowDemoFallback
OnchainInForce ==
  IF options.allowOnchainFallback = <<TRUE>> THEN TRUE
  ELSE IF options.allowOnchainFallback = <<FALSE>> THEN FALSE
  ELSE config.allowOnchainFallback

\* C10: the sequence is [contract] for trustscore_contract; [demo], then
\* contract iff on-chain fallback is allowed, for api_demo; [paid], then demo
\* iff demo fallback is allowed, then contract iff on-chain fallback is
\* allowed, for api_paid; it is never empty and holds no source twice
C10_SourceSequence ==
  clientPc = "resolved" =>
    /\ ModeInForce = "trustscore_contract" => sequence = <<"trustscore_contract">>
    /\ ModeInForce = "api_demo" =>
         sequence = IF OnchainInForce THEN <<"api_demo", "trustscore_contract">>
                    ELSE <<"api_demo">>
    /\ ModeInForce = "api_paid" =>
         sequence = IF DemoInForce /\ OnchainInForce
                      THEN <<"api_paid", "api_demo", "trustscore_contract">>
                    ELSE IF DemoInForce THEN <<"api_paid", "api_demo">>
                    ELSE IF OnchainInForce THEN <<"api_paid", "trustscore_contract">>
                    ELSE <<"api_paid">>
    /\ Len(sequence) > 0
    /\ Cardinality(SeqToSet(sequence)) = Len(sequence)

\* a call in the default mode turns the configured demo fallback off and the
\* configured on-chain fallback on
C10_Witness ==
  /\ clientPc = "resolved"
  /\ options.mode = ""
  /\ config.defaultMode = "api_paid"
  /\ config.allowDemoFallback /\ options.allowDemoFallback = <<FALSE>>
  /\ ~config.allowOnchainFallback /\ options.allowOnchainFallback = <<TRUE>>
  /\ sequence = <<"api_paid", "trustscore_contract">>

\* the outcome of a call that has been answered, from its history: the last
\* attempt did not fail, every attempt failed, or nothing was attempted
Succeeded == clientPc = "answered" /\ Len(failures) < Len(attempted)
EverySourceFailed ==
  clientPc = "answered" /\ attempted # <<>> /\ Len(failures) = Len(attempted)
RejectedId == clientPc = "answered" /\ attempted = <<>>

\* C11: the sources attempted are a prefix of the sequence, in its order and
\* none twice; at most one attempt is awaited at a time; a success ends the
\* call, so every attempt before it failed, and the envelope names the source
\* that succeeded; when every source failed the whole sequence was attempted
\* and the envelope names its last source
C11_SequentialAttempts ==
  /\ Len(attempted) <= Len(sequence)
  /\ attempted = SubSeq(sequence, 1, Len(attempted))
  /\ Cardinality(SeqToSet(attempted)) = Len(attempted)
  /\ Cardinality(pending) <= 1
  /\ clientPc = "attempt" => pending = {attempted[Len(attempted)]}
  /\ Succeeded =>
       /\ Len(failures) = Len(attempted) - 1
       /\ envelope.source = attempted[Len(attempted)]
  /\ EverySourceFailed =>
       /\ attempted = sequence
       /\ envelope.source = sequence[Len(sequence)]

\* the third source of a sequence of three answers after two failures
C11_Witness ==
  /\ Succeeded
  /\ attempted = <<"api_paid", "api_demo", "trustscore_contract">>
  /\ envelope.source = "trustscore_contract"

\* the envelope the answer of the source that succeeded gives when nothing
\* failed before it
EnvelopeOfAnswer ==
  buildSuccessResponse(parsedAgentId, answer[1].score, answer[1].confidence,
                       attempted[Len(attempted)], answer[1].data)

\* a source succeeded after at least one source had failed
SucceededAfterFailure == Succeeded /\ failures # <<>>

\* C12: the envelope of a success that follows failures is degraded; its
\* score, confidence, verdict, recommendation and data are those of the
\* answer of the source that succeeded; its fallback and error.code are the
\* classification of the last failure before the success
C12_DegradedAfterFailure ==
  SucceededAfterFailure =>
    /\ envelope.status = STATUS.DEGRADED
    /\ envelope.source = attempted[Len(attempted)]
    /\ envelope.score = EnvelopeOfAnswer.score
    /\ envelope.confidence = EnvelopeOfAnswer.confidence
    /\ envelope.verdict = EnvelopeOfAnswer.verdict
    /\ envelope.recommendation = EnvelopeOfAnswer.recommendation
    /\ envelope.data = EnvelopeOfAnswer.data
    /\ envelope.fallback = <<failures[Len(failures)]>>
    /\ envelope.error # <<>>
    /\ envelope.error[1].code = failures[Len(failures)]

\* the paid source is not found, the demo source times out, the contract
\* answers a trusted score: the envelope carries the timeout
C12_Witness ==
  /\ SucceededAfterFailure
  /\ failures = <<FALLBACK_CODE.AGENT_NOT_FOUND, FALLBACK_CODE.API_TIMEOUT>>
  /\ envelope.source = SOURCE.TRUSTSCORE_CONTRACT
  /\ envelope.verdict = VERDICT.TRUSTED
  /\ envelope.fallback = <<FALLBACK_CODE.API_TIMEOUT>>

\* the primary source failed and a later source succeeded
PrimaryFailedLaterSucceeded == Succeeded /\ Len(attempted) >= 2

\* C13 (as stated): when the primary source fails and a later source
\* succeeds, the envelope is degraded, names the source that succeeded and
\* carries the classification of the first failure of the sequence
C13_FallbackOfFirstFailure ==
  PrimaryFailedLaterSucceeded =>
    /\ envelope.status = STATUS.DEGRADED
    /\ envelope.source = attempted[Len(attempted)]
    /\ envelope.fallback = <<failures[1]>>

\* C13 (amended): the envelope is degraded, names the source that succeeded
\* and carries the classification of the last failure before the success,
\* which is the primary source's only when no other source failed after it or
\* the later failure classified alike
C13_FallbackOfLastFailure ==
  PrimaryFailedLaterSucceeded =>
    /\ envelope.status = STATUS.DEGRADED
    /\ envelope.source = attempted[Len(attempted)]
    /\ envelope.fallback = <<failures[Len(failures)]>>
    /\ envelope.fallback = <<failures[1]>> <=> failures[1] = failures[Len(failures)]

\* the paid source is not found, the demo source asks for payment, the
\* contract answers: the envelope carries payment_unavailable, not the
\* primary source's agent_not_found
C13_Witness ==
  /\ PrimaryFailedLaterSucceeded
  /\ attempted = <<SOURCE.API_PAID, SOURCE.API_DEMO, SOURCE.TRUSTSCORE_CONTRACT>>
  /\ failures = <<FALLBACK_CODE.AGENT_NOT_FOUND, FALLBACK_CODE.PAYMENT_UNAVAILABLE>>
  /\ envelope.fallback = <<FALLBACK_CODE.PAYMENT_UNAVAILABLE>>

\* C14: when every source failed the envelope has a null score, the
\* classification of the last failure as fallback, the last source attempted
\* as source, and status error exactly when that classification is
\* agent_not_found, degraded otherwise
C14_AllSourcesFailed ==
  EverySourceFailed =>
    /\ envelope.score = JsNull
    /\ envelope.fallback = <<failures[Len(failures)]>>
    /\ envelope.source = attempted[Len(attempted)]
    /\ envelope.status = STATUS.ERROR <=>
         failures[Len(failures)] = FALLBACK_CODE.AGENT_NOT_FOUND
    /\ envelope.status # STATUS.ERROR => envelope.status = STATUS.DEGRADED

\* the demo source times out and the contract read reverts: error; and the
\* other way round the status is degraded
C14_Witness ==
  /\ EverySourceFailed
  /\ attempted = <<SOURCE.API_DEMO, SOURCE.TRUSTSCORE_CONTRACT>>
  /\ failures = <<FALLBACK_CODE.API_TIMEOUT, FALLBACK_CODE.AGENT_NOT_FOUND>>
  /\ envelope.status = STATUS.ERROR
  /\ envelope.source = SOURCE.TRUSTSCORE_CONTRACT

\* the agent ID of the call fails validation
InvalidIdCalled ==
  call # NoCall /\ parseAgentIdParam(StringOfRaw(call.rawAgentId)).threw

\* C15: a call with an invalid agent ID attempts no source and makes no call,
\* the paid fetcher's factory included; it is answered with status error,
\* fallback invalid_agent_id, a null score, UNKNOWN, manual_review and the
\* first source of the sequence
C15_InvalidIdShortCircuits ==
  InvalidIdCalled =>
    /\ attempted = <<>>
    /\ pending = {}
    /\ calls = <<>>
    /\ clientPc \in {"called", "resolved", "answered"}
    /\ clientPc = "answered" =>
         /\ envelope.status = STATUS.ERROR
         /\ envelope.fallback = <<FALLBACK_CODE.INVALID_AGENT_ID>>
         /\ envelope.score = JsNull
         /\ envelope.verdict = VERDICT.UNKNOWN
         /\ envelope.recommendation = RECOMMENDATION.MANUAL_REVIEW
         /\ envelope.source = sequence[1]

\* an ID one above the largest 256-bit value, asked in demo mode of a client
\* whose default is the paid mode
C15_Witness ==
  /\ InvalidIdCalled
  /\ clientPc = "answered"
  /\ call.rawAgentId # <<>>
  /\ Len(call.rawAgentId[1]) = Len(UINT256_MAX)
  /\ config.defaultMode = SOURCE.API_PAID
  /\ envelope.source = SOURCE.API_DEMO
  /\ envelope.status = STATUS.ERROR

\* the codes of the fallback taxonomy
FallbackCodes == {FALLBACK_CODE[k] : k \in DOMAIN FALLBACK_CODE}

\* C16: in every envelope returned, fallback is null exactly when status is
\* ok, and so is error; an envelope that is degraded or error carries a code
\* of the taxonomy as fallback and an error with that code
C16_FallbackIffNotOk ==
  clientPc = "answered" =>
    /\ envelope.status \in {STATUS.OK, STATUS.DEGRADED, STATUS.ERROR}
    /\ envelope.status = STATUS.OK <=> envelope.fallback = <<>>
    /\ envelope.status = STATUS.OK <=> envelope.error = <<>>
    /\ envelope.status # STATUS.OK =>
         /\ envelope.fallback[1] \in FallbackCodes
         /\ envelope.error[1].code = envelope.fallback[1]

\* a report answered by the demo source after the paid source was unavailable
C16_Witness ==
  /\ Succeeded
  /\ call.api = "queryTrustReport"
  /\ envelope.status = STATUS.DEGRADED
  /\ envelope.source = SOURCE.API_DEMO
  /\ envelope.fallback = <<FALLBACK_CODE.ORACLE_UNAVAILABLE>>
  /\ envelope.error[1].code = FALLBACK_CODE.ORACLE_UNAVAILABLE

\* the fields of the structured response contract
EnvelopeFields ==
  {"status", "agentId", "score", "confidence", "verdict", "recommendation", "source",
   "fallback", "error", "timingMs", "timestamp", "correlationId", "data"}

\* C17 (as stated): every envelope returned, whatever the outcome, has all
\* thirteen fields of the structured response contract
C17_ThirteenFields ==
  clientPc = "answered" => EnvelopeFields \subseteq DOMAIN envelope

\* the verdict of a score by the table: above 700, 400 to 700, below 400, none
VerdictOfScore(score) ==
  IF score = JsNull THEN VERDICT.UNKNOWN
  ELSE IF score.v > 700 THEN VERDICT.TRUSTED
  ELSE IF score.v >= 400 /\ score.v <= 700 THEN VERDICT.CAUTION
  ELSE VERDICT.DANGEROUS

\* score 0 with both feedback counters 0, or with confidence 0
NoHistory(e) ==
  /\ e.score = Num(0)
  /\ \/ e.data.totalFeedback = Num(0) /\ e.data.positiveFeedback = Num(0)
     \/ e.confidence = Num(0)

\* C18 (as stated): the verdict of a success envelope is the table's verdict
\* of its score, except that a record with no history is UNKNOWN
C18_VerdictOfSuccess ==
  Succeeded =>
    envelope.verdict =
      IF NoHistory(envelope) THEN VERDICT.UNKNOWN ELSE VerdictOfScore(envelope.score)

\* C19: in every envelope returned, recommendation is proceed exactly for
\* TRUSTED, abort exactly for DANGEROUS, and manual_review exactly for CAUTION
\* and UNKNOWN; the evaluation evaluateAgentRisk adds repeats both
C19_RecommendationOfVerdict ==
  clientPc = "answered" =>
    /\ envelope.verdict \in {VERDICT[k] : k \in DOMAIN VERDICT}
    /\ envelope.recommendation = RECOMMENDATION.PROCEED <=>
         envelope.verdict = VERDICT.TRUSTED
    /\ envelope.recommendation = RECOMMENDATION.ABORT <=>
         envelope.verdict = VERDICT.DANGEROUS
    /\ envelope.recommendation = RECOMMENDATION.MANUAL_REVIEW <=>
         envelope.verdict \in {VERDICT.CAUTION, VERDICT.UNKNOWN}
    /\ call.api = "evaluateAgentRisk" =>
         /\ envelope.evaluation.verdict = envelope.verdict
         /\ envelope.evaluation.recommendation = envelope.recommendation

\* a degraded envelope with a dangerous score says abort
C19_Witness ==
  /\ Succeeded
  /\ envelope.status = STATUS.DEGRADED
  /\ envelope.score = Num(399)
  /\ envelope.verdict = VERDICT.DANGEROUS
  /\ envelope.recommendation = RECOMMENDATION.ABORT

\* the last failed attempt was an HTTP attempt (or the paid fetcher's factory)
ApiAttemptFailed ==
  failures # <<>> /\ attempted[Len(failures)] # SOURCE.TRUSTSCORE_CONTRACT

\* the error is an abort or a timeout
AbortOrTimeout(error) ==
  error.name = "AbortError" \/ error.code = "ABORT_ERR" \/ "timeout" \in error.message

\* C20: a failed HTTP attempt is classified by the first rule that matches:
\* 404 agent_not_found, 402 payment_unavailable, 500 and above
\* oracle_unavailable, an abort or timeout api_timeout, anything else
\* oracle_unavailable; the classification is one of these four codes
C20_ApiFailureClassification ==
  ApiAttemptFailed =>
    LET error == lastError[1]
        status == error.statusCode
        code == failures[Len(failures)]
        is404 == status = Num(404)
        is402 == status = Num(402)
        is5xx == status.t = "number" /\ status.v >= 500
    IN  /\ code \in {FALLBACK_CODE.AGENT_NOT_FOUND, FALLBACK_CODE.PAYMENT_UNAVAILABLE,
                     FALLBACK_CODE.ORACLE_UNAVAILABLE, FALLBACK_CODE.API_TIMEOUT}
        /\ is404 => code = FALLBACK_CODE.AGENT_NOT_FOUND
        /\ is402 => code = FALLBACK_CODE.PAYMENT_UNAVAILABLE
        /\ is5xx => code = FALLBACK_CODE.ORACLE_UNAVAILABLE
        /\ ~is404 /\ ~is402 /\ ~is5xx /\ AbortOrTimeout(error) =>
             code = FALLBACK_CODE.API_TIMEOUT
        /\ ~is404 /\ ~is402 /\ ~is5xx /\ ~AbortOrTimeout(error) =>
             code = FALLBACK_CODE.ORACLE_UNAVAILABLE
        /\ priorFailure[1].code = code

\* a 504 whose body speaks of a timeout is oracle_unavailable: the status
\* rule comes first
C20_Witness ==
  /\ ApiAttemptFailed
  /\ lastError = <<HttpError(504, {"timeout"})>>
  /\ failures[Len(failures)] = FALLBACK_CODE.ORACLE_UNAVAILABLE
  /\ clientPc = "loop"

\* the last failed attempt was the contract read
ContractAttemptFailed ==
  failures # <<>> /\ attempted[Len(failures)] = SOURCE.TRUSTSCORE_CONTRACT

\* the error is a revert the reader recognises
RecognizedRevert(error) ==
  error.code = "CALL_EXCEPTION" \/ "execution reverted" \in error.message

\* the error is a timeout, or its message speaks of the network
TimeoutOrRpc(error) ==
  \/ AbortOrTimeout(error)
  \/ error.message \cap {"network", "socket", "connect", "rpc"} # {}

\* C21: a failed contract read is classified by the first rule that matches:
\* a recognised revert agent_not_found, a timeout or a network, socket,
\* connect or rpc message rpc_unavailable, anything else oracle_unavailable;
\* the revert of a read of an agent without a record is agent_not_found
C21_ContractFailureClassification ==
  ContractAttemptFailed =>
    LET error == lastError[1]
        code == failures[Len(failures)]
    IN  /\ RecognizedRevert(error) => code = FALLBACK_CODE.AGENT_NOT_FOUND
        /\ ~RecognizedRevert(error) /\ TimeoutOrRpc(error) =>
             code = FALLBACK_CODE.RPC_UNAVAILABLE
        /\ ~RecognizedRevert(error) /\ ~TimeoutOrRpc(error) =>
             code = FALLBACK_CODE.ORACLE_UNAVAILABLE
        /\ priorFailure[1].code = code

\* a revert whose message also speaks of the rpc is agent_not_found: the
\* revert rule comes first
C21_Witness ==
  /\ ContractAttemptFailed
  /\ lastError = <<ThrownError("Error", "", {"execution reverted", "rpc"})>>
  /\ failures[Len(failures)] = FALLBACK_CODE.AGENT_NOT_FOUND
  /\ clientPc = "answered"
  /\ envelope.fallback = <<FALLBACK_CODE.AGENT_NOT_FOUND>>

\* the positions of a call that has not thrown
CallPositions == {"idle", "called", "resolved", "loop", "attempt", "answered"}

\* C22: a call never ends by throwing: whatever the agent ID and whatever the
\* sources answer or throw, it is answered with an envelope with a status,
\* and every error a source threw was caught and is kept only as a code of
\* the taxonomy
C22_NeverThrows ==
  /\ clientPc \in CallPositions
  /\ clientPc \in {"loop", "answered"} => Len(failures) >= Len(attempted) - 1
  /\ clientPc = "loop" => Len(failures) = Len(attempted)
  /\ lastError # <<>> => failures # <<>>
  /\ SeqToSet(failures) \subseteq FallbackCodes
  /\ clientPc = "answered" =>
       /\ envelope.status \in {STATUS.OK, STATUS.DEGRADED, STATUS.ERROR}
       /\ envelope.error # <<>> => envelope.error[1].code \in FallbackCodes

\* an aborted paid request, a demo request answered 500 and a contract read
\* that threw a TypeError end in an envelope
C22_Witness ==
  /\ clientPc = "answered"
  /\ Len(failures) = 3
  /\ lastError = <<ThrownError("TypeError", "", {})>>
  /\ failures[1] = FALLBACK_CODE.API_TIMEOUT
  /\ envelope.status = STATUS.DEGRADED
  /\ envelope.error[1].code = FALLBACK_CODE.ORACLE_UNAVAILABLE

\* the calls of paidFetchFactory that returned a fetcher
FetchersBuilt == {i \in 1..Len(factoryLog) : factoryLog[i] = "built"}

\* C23 (as stated): over the queries of one client paidFetchFactory is called
\* at most once
C23_FactoryCalledAtMostOnce == Len(factoryLog) <= 1

\* C23 (amended): over the queries of one client at most one fetcher is
\* built; it is built by the last call of paidFetchFactory, every call before
\* it threw, and the client keeps it from then on, so every later paid
\* attempt uses it and calls the factory no more
C23_FetcherBuiltAtMostOnce ==
  /\ Cardinality(FetchersBuilt) <= 1
  /\ FetchersBuilt \subseteq {Len(factoryLog)}
  /\ paidFetch = "built" <=> FetchersBuilt # {}
  /\ paidFetch \in {"undefined", "built"}

\* the factory threw in one query and built the fetcher in a later one, and
\* a paid attempt of a third query uses that fetcher without calling it
C23_Witness ==
  /\ factoryLog = <<"threw", "built">>
  /\ paidFetch = "built"
  /\ clientPc = "answered"
  /\ attempted = <<SOURCE.API_PAID>>
  /\ calls = <<"paid_http">>

\* ------------------------------------------------------------------ scoring configuration
\* toPositiveNumber on a weight; the weights of this model are whole numbers
\* (the score depends on the ratio of the two weights only)
toPositiveNumber(value, fallback) ==
  LET parsed == Number(value)
  IN  IF IsNumber(parsed) /\ parsed.v > 0 THEN parsed.v ELSE fallback

\* toPositiveNumber on a multiplier, a rational [n, d] with d > 0
toPositiveMultiplier(value, fallback) ==
  LET parsed == Number(value)
  IN  IF IsNumber(parsed) /\ parsed.v.n > 0 THEN parsed.v ELSE fallback

toPositiveInt(value, fallback) ==
  LET parsed == Number(value)
  IN  IF IsNumber(parsed) /\ parsed.v > 0 THEN parsed.v ELSE fallback

toBps(value, fallback) ==
  LET parsed == Number(value)
  IN  IF ~IsNumber(parsed) THEN fallback
      ELSE IF parsed.v < 0 THEN 0
      ELSE IF parsed.v > 10000 THEN 10000
      ELSE parsed.v

normalizeConfig(input) ==
  [decayWindowDays |->
     toPositiveInt(input.decayWindowDays, DEFAULT_SCORING_CONFIG.decayWindowDays),
   recentFeedbackWeight |->
     toPositiveNumber(input.recentFeedbackWeight, DEFAULT_SCORING_CONFIG.recentFeedbackWeight),
   olderFeedbackWeight |->
     toPositiveNumber(input.olderFeedbackWeight, DEFAULT_SCORING_CONFIG.olderFeedbackWeight),
   confidenceThresholdFeedbackCount |->
     toPositiveInt(input.confidenceThresholdFeedbackCount,
                   DEFAULT_SCORING_CONFIG.confidenceThresholdFeedbackCount),
   confidenceMultiplier |->
     toPositiveMultiplier(input.confidenceMultiplier, DEFAULT_SCORING_CONFIG.confidenceMultiplier),
   negativeFlagThresholdBps |->
     toBps(input.negativeFlagThresholdBps, DEFAULT_SCORING_CONFIG.negativeFlagThresholdBps),
   recentNegativeWindowDays |->
     toPositiveInt(input.recentNegativeWindowDays,
                   DEFAULT_SCORING_CONFIG.recentNegativeWindowDays),
   flaggedScoreMultiplier |->
     toPositiveMultiplier(input.flaggedScoreMultiplier,
                          DEFAULT_SCORING_CONFIG.flaggedScoreMultiplier),
   maxScore |-> toPositiveInt(input.maxScore, DEFAULT_SCORING_CONFIG.maxScore)]

\* ------------------------------------------------------------------ scoring calls
\* the longest feedback list a first call is given
MaxFeedbacks == 2

\* nowMs of the calls, in days (DAY_MS is the unit of time)
ScoringNow == 40

\* the age of an entry in days: inside every window, inside the default windows
\* only, outside every window
FeedbackAges == {0, 5, 35}

FeedbackEntries(nowMs) ==
  [timestamp : {nowMs - age : age \in FeedbackAges}, isPositive : BOOLEAN]

FeedbackLists(nowMs) ==
  UNION {[1..len -> FeedbackEntries(nowMs)] : len \in 0..MaxFeedbacks}

\* the config argument: each field absent or null, valid, or not accepted (a
\* multiplier of 0, a threshold below 0)
ConfigInputs ==
  [decayWindowDays : {Undefined, Num(2)},
   recentFeedbackWeight : {Undefined, Num(1)},
   olderFeedbackWeight : {Undefined, Num(3)},
   confidenceThresholdFeedbackCount : {Undefined, Num(2)},
   confidenceMultiplier : {Num([n |-> 0, d |-> 1]), Num([n |-> 1, d |-> 2]), Num([n |-> 3, d |-> 1])},
   negativeFlagThresholdBps : {Undefined, Num(-5), Num(6000)},
   recentNegativeWindowDays : {Undefined, Num(1)},
   flaggedScoreMultiplier : {Num([n |-> 0, d |-> 1]), Num([n |-> 3, d |-> 2])},
   maxScore : {JsNull, Num(7)}]

Scored(feedbacks, configInput, nowMs) ==
  [called |-> TRUE, feedbacks |-> feedbacks, config |-> configInput, nowMs |-> nowMs,
   result |-> scoreFeedbackDetailed(feedbacks, normalizeConfig(configInput), nowMs)]

\* scoreFeedbackDetailed(feedbacks, config, nowMs)
ScoreFeedback ==
  \E nowMs \in {ScoringNow} :
    /\ LibraryAtRest
    /\ \E feedbacks \in FeedbackLists(nowMs), configInput \in ConfigInputs :
         /\ scoring' = Scored(feedbacks, configInput, nowMs)
         /\ scoringBefore' = NoScoring
         /\ UNCHANGED <<indexerVars, contractVars, clientVars, roundTrip, deduped, split, classified, harness, fileVars>>

\* the same call again, once one more entry has been added to the list
ScoreOneMore ==
  /\ scoring.called
  /\ scoringBefore = NoScoring
  /\ \E feedback \in FeedbackEntries(scoring.nowMs) :
       scoring' = Scored(Append(scoring.feedbacks, feedback), scoring.config, scoring.nowMs)
  /\ scoringBefore' = scoring
  /\ UNCHANGED <<indexerVars, contractVars, clientVars, roundTrip, deduped, split, classified, harness, fileVars>>

\* ------------------------------------------------------------------ scoring claims
ScoringConfig == normalizeConfig(scoring.config)

AppendedRecentPositive ==
  /\ scoringBefore # NoScoring
  /\ LET feedback == scoring.feedbacks[Len(scoring.feedbacks)]
     IN  /\ feedback.isPositive
         /\ feedback.timestamp >= scoring.nowMs - ScoringConfig.decayWindowDays * DAY_MS
         /\ feedback.timestamp >= scoring.nowMs - ScoringConfig.recentNegativeWindowDays * DAY_MS

\* C25: appending one recent positive entry to a feedback list never decreases
\* the score, whatever the configuration, when flagged is the same before and
\* after
C25_PositiveNeverDecreases ==
  (AppendedRecentPositive /\ scoring.result.flagged = scoringBefore.result.flagged)
    => scoring.result.score >= scoringBefore.result.score

\* ------------------------------------------------------------------ checkpoint round trip
\* JSON.stringify of a normalised checkpoint: the block number is written in
\* decimal digits or as the literal null (no digits), the IDs as strings
JSONstringify(checkpoint) ==
  [lastProcessedBlock |-> IF checkpoint.lastProcessedBlock = Null THEN <<>>
                          ELSE toString(checkpoint.lastProcessedBlock),
   pendingAgentIds |-> checkpoint.pendingAgentIds]

\* JSON.parse of that text
JSONparse(text) ==
  [lastProcessedBlock |-> IF text.lastProcessedBlock = <<>> THEN Null
                          ELSE BigInt(text.lastProcessedBlock),
   pendingAgentIds |-> text.pendingAgentIds]

\* saveCheckpoint: the text the checkpoint file holds afterwards
saveCheckpoint(checkpoint) == JSONstringify(normalizeCheckpoint(checkpoint))

\* fs.readFile and JSON.parse of loadCheckpoint
ReadFile(text) == [exists |-> TRUE, content |-> JSONparse(text)]

\* the longest pendingAgentIds of a checkpoint value
MaxPending == 3

\* pending entries: "7", "07", "10", "-1", "-0", a letter
PendingInputs ==
  {<<7>>, <<0, 7>>, <<1, 0>>, <<MinusChar, 1>>, <<MinusChar, 0>>, <<LetterChar>>}

\* checkpoint values: lastProcessedBlock null (Null), negative or a block number
CheckpointInputs ==
  [lastProcessedBlock : {0 - 2, Null, 0, 12},
   pendingAgentIds : UNION {[1..len -> PendingInputs] : len \in 0..MaxPending}]

NoRoundTrip == [called |-> FALSE]

\* saveCheckpoint(path, checkpoint), then loadCheckpoint(path)
SaveThenLoad ==
  /\ LibraryAtRest
  /\ \E checkpoint \in CheckpointInputs :
       LET text == saveCheckpoint(checkpoint)
       IN  roundTrip' = [called |-> TRUE, checkpoint |-> checkpoint, text |-> text,
                         loaded |-> loadCheckpoint(ReadFile(text))]
  /\ UNCHANGED <<indexerVars, contractVars, clientVars, scoring, scoringBefore, deduped, split, classified, harness, fileVars>>

\* ------------------------------------------------------------------ checkpoint claims
PendingGiven == roundTrip.checkpoint.pendingAgentIds
PendingLoaded == roundTrip.loaded.pendingAgentIds

\* the positions of the given entries that are numbers and not negative
NumericPositions ==
  {i \in 1..Len(PendingGiven) :
     ~ParseBigInt(PendingGiven[i]).threw /\ ParseBigInt(PendingGiven[i]).n >= 0}

\* the first position at which the ID of value n is given
FirstSeen(n) ==
  CHOOSE i \in NumericPositions :
    /\ ParseBigInt(PendingGiven[i]).n = n
    /\ \A j \in NumericPositions : ParseBigInt(PendingGiven[j]).n = n => i <= j

SaveCall ==
  /\ savePc = "idle"
  /\ saving < MaxSaves
  /\ saving' = saving + 1
  /\ savePc' = "mkdir"
  /\ UNCHANGED <<outsideFile, fsDir, fsInodes, lastSaved, reader, observed>>

\* fs.mkdir(dirname, {recursive: true})
SaveMkdir ==
  /\ savePc = "mkdir"
  /\ savePc' = "open"
  /\ UNCHANGED <<outsideFile, fsDir, fsInodes, saving, lastSaved, reader, observed>>

\* fs.writeFile(tmpPath, ...) opens the file: created, or truncated if it is there
SaveOpen ==
  /\ savePc = "open"
  /\ IF Lookup(fsDir, tmpPath) = NoInode
     THEN /\ fsInodes' = Append(fsInodes, [version |-> saving, chunks |-> 0])
          /\ fsDir' = [fsDir EXCEPT ![tmpPath] = Len(fsInodes) + 1]
     ELSE /\ fsInodes' = [fsInodes EXCEPT ![Lookup(fsDir, tmpPath)] =
                                            [version |-> saving, chunks |-> 0]]
          /\ UNCHANGED fsDir
  /\ savePc' = "write"
  /\ UNCHANGED <<outsideFile, saving, lastSaved, reader, observed>>

\* fs.writeFile writes the next part of the text
SaveWrite ==
  /\ savePc = "write"
  /\ LET inode == Lookup(fsDir, tmpPath)
         chunks == fsInodes[inode].chunks + 1
     IN  /\ fsInodes' = [fsInodes EXCEPT ![inode].chunks = chunks]
         /\ savePc' = IF chunks = FileChunks THEN "rename" ELSE "write"
  /\ UNCHANGED <<outsideFile, fsDir, saving, lastSaved, reader, observed>>

\* fs.rename(tmpPath, checkpointPath)
SaveRename ==
  /\ savePc = "rename"
  /\ fsDir' = Rename(fsDir, tmpPath, checkpointPath)
  /\ lastSaved' = saving
  /\ savePc' = "idle"
  /\ UNCHANGED <<outsideFile, fsInodes, saving, reader, observed>>

\* the process dies inside saveCheckpoint; the disk stays as it is and the
\* indexer is started again
SaveCrash ==
  /\ savePc # "idle"
  /\ savePc' = "idle"
  /\ UNCHANGED <<outsideFile, fsDir, fsInodes, saving, lastSaved, reader, observed>>

Observation(version, complete, rd) ==
  [made |-> TRUE, version |-> version, complete |-> complete, previous |-> rd.previous,
   new |-> rd.new, during |-> rd.during]

\* fs.readFile(checkpointPath) opens the file; ENOENT is the checkpoint of a
\* first run
ReaderOpen ==
  /\ reader.pc = "idle"
  /\ LET rd == [pc |-> "read", inode |-> Lookup(fsDir, checkpointPath),
                previous |-> lastSaved,
                new |-> IF savePc = "idle" THEN lastSaved ELSE saving,
                during |-> savePc]
     IN  IF rd.inode = NoInode
         THEN /\ observed' = Observation(0, TRUE, rd)
              /\ UNCHANGED reader
         ELSE /\ reader' = rd
              /\ UNCHANGED observed
  /\ UNCHANGED <<outsideFile, fsDir, fsInodes, savePc, saving, lastSaved>>

\* fs.readFile reads the file it opened; JSON.parse takes what it read
ReaderRead ==
  /\ reader.pc = "read"
  /\ observed' = Observation(fsInodes[reader.inode].version,
                             IsComplete(fsInodes[reader.inode]), reader)
  /\ reader' = ReaderIdle
  /\ UNCHANGED <<outsideFile, fsDir, fsInodes, savePc, saving, lastSaved>>

NextCheckpointFile ==
  \/ SaveCall
  \/ SaveMkdir
  \/ SaveOpen
  \/ SaveWrite
  \/ SaveRename
  \/ SaveCrash
  \/ ReaderOpen
  \/ ReaderRead

InitCheckpointFile ==
  IndexerAtRest /\ ContractInit /\ ClientAtRest /\ LibraryAtRest /\ FileAtRest

SpecCheckpointFile == InitCheckpointFile /\ [][NextCheckpointFile]_vars

\* ------------------------------------------------------------------ checkpoint file claims
\* C27: what a reader of the checkpoint file gets is a complete checkpoint, and
\* it is the one saved last before the reader opened the file or the one that
\* was being saved at that moment, whatever the interleaving with
\* saveCheckpoint and wherever saveCheckpoint was cut short
C27_ReaderSeesPreviousOrNew ==
  observed.made =>
    /\ observed.complete
    /\ observed.version \in {observed.previous, observed.new}

\* a read that began while the third checkpoint was being written, after the
\* save of the second one had been cut short, and got the first one
C27_Witness ==
  /\ observed.made
  /\ observed.during = "write"
  /\ observed.previous = 1
  /\ observed.new = MaxSaves
  /\ observed.version = 1
  /\ \E i \in 1..Len(fsInodes) : ~IsComplete(fsInodes[i])

\* ------------------------------------------------------------------ log deduplication
\* the character | of the key, and a second letter
BarChar == 12
OtherLetterChar == 13

\* String(x || "") of a number or bigint: 0 and 0n are falsy
StringOrEmpty(n) == IF n = 0 THEN <<>> ELSE toString(n)

\* Array.prototype.join("|")
RECURSIVE JoinWithBar(_)
JoinWithBar(parts) ==
  IF Len(parts) = 0 THEN <<>>
  ELSE IF Len(parts) = 1 THEN parts[1]
  ELSE parts[1] \o <<BarChar>> \o JoinWithBar(Tail(parts))

\* String(s || "") of a string is the string: the falsy string is ""
feedbackDedupKey(log) ==
  JoinWithBar(<<normalizeAgentIdString(toString(log.agentId)),
                log.clientAddress,
                StringOrEmpty(log.feedbackIndex),
                StringOrEmpty(log.value),
                StringOrEmpty(log.valueDecimals),
                log.tag1,
                log.tag2,
                log.endpoint,
                log.feedbackURI,
                log.feedbackHash,
                StringOrEmpty(log.blockNumber),
                log.transactionHash>>)

\* the comparator of sortLogs: block number, then log index
LogBefore(a, b) ==
  IF a.blockNumber # b.blockNumber THEN a.blockNumber < b.blockNumber
  ELSE a.index < b.index

RECURSIVE sortLogs(_)
sortLogs(logs) ==
  IF Len(logs) = 0 THEN <<>>
  ELSE LET sorted == sortLogs(SubSeq(logs, 1, Len(logs) - 1))
           last == logs[Len(logs)]
           k == Cardinality({i \in 1..Len(sorted) : ~LogBefore(last, sorted[i])})
       IN  SubSeq(sorted, 1, k) \o <<last>> \o SubSeq(sorted, k + 1, Len(sorted))

\* the loop of dedupeLogs over logs[1..k]: the logs kept so far
RECURSIVE DedupeLoop(_, _)
DedupeLoop(logs, k) ==
  IF k = 0 THEN <<>>
  ELSE LET kept == DedupeLoop(logs, k - 1)
           key == feedbackDedupKey(logs[k])
       IN  IF \E i \in 1..Len(kept) : feedbackDedupKey(kept[i]) = key
           THEN kept
           ELSE Append(kept, logs[k])

dedupeLogs(logs) == sortLogs(DedupeLoop(logs, Len(logs)))

\* the twelve fields of the spec's tuple, by their names in a log
KeyFields ==
  {"agentId", "clientAddress", "feedbackIndex", "value", "valueDecimals", "tag1", "tag2",
   "endpoint", "feedbackURI", "feedbackHash", "blockNumber", "transactionHash"}

\* tags: "", "a", "b", "a|", "|b"
TagInputs ==
  {<<>>, <<LetterChar>>, <<OtherLetterChar>>, <<LetterChar, BarChar>>,
   <<BarChar, OtherLetterChar>>}

EventNames == {"FeedbackPosted", "NewFeedback"}

\* a log of the registry: one event of block 1
BaseLog(event, tag1, tag2) ==
  [event |-> event, index |-> 0, agentId |-> 1, clientAddress |-> <<1>>, feedbackIndex |-> 1,
   value |-> 5, valueDecimals |-> 0, tag1 |-> tag1, tag2 |-> tag2, endpoint |-> <<>>,
   feedbackURI |-> <<LetterChar>>, feedbackHash |-> <<1>>, blockNumber |-> 1,
   transactionHash |-> <<1>>]

\* the same log with another value in one field
OtherValue(log, field) ==
  CASE field = "agentId" -> [log EXCEPT !.agentId = 2]
    [] field = "clientAddress" -> [log EXCEPT !.clientAddress = <<2>>]
    [] field = "feedbackIndex" -> [log EXCEPT !.feedbackIndex = 2]
    [] field = "value" -> [log EXCEPT !.value = 0]
    [] field = "valueDecimals" -> [log EXCEPT !.valueDecimals = 2]
    [] field = "endpoint" -> [log EXCEPT !.endpoint = <<LetterChar>>]
    [] field = "feedbackURI" -> [log EXCEPT !.feedbackURI = <<>>]
    [] field = "feedbackHash" -> [log EXCEPT !.feedbackHash = <<2>>]
    [] field = "blockNumber" -> [log EXCEPT !.blockNumber = 2]
    [] field = "transactionHash" -> [log EXCEPT !.transactionHash = <<2>>]
    [] OTHER -> log

NoDedupe == [called |-> FALSE]

\* dedupeLogs of the two logs that the two queries of queryFeedbackLogs returned
DedupeTwoLogs ==
  /\ LibraryAtRest
  /\ \E event1, event2 \in EventNames, tag1, tag2, otherTag1, otherTag2 \in TagInputs,
        field \in KeyFields, index \in 0..1 :
       LET first == BaseLog(event1, tag1, tag2)
           second == [OtherValue(BaseLog(event2, otherTag1, otherTag2), field)
                        EXCEPT !.index = index]
       IN  deduped' = [called |-> TRUE, logs |-> <<first, second>>,
                       result |-> dedupeLogs(<<first, second>>)]
  /\ UNCHANGED <<indexerVars, contractVars, clientVars, scoring, scoringBefore, roundTrip,
                 split, classified, harness, fileVars>>

\* ------------------------------------------------------------------ deduplication claims
AgreeOnKeyFields(a, b) ==
  /\ a.agentId = b.agentId
  /\ a.clientAddress = b.clientAddress
  /\ a.feedbackIndex = b.feedbackIndex
  /\ a.value = b.value
  /\ a.valueDecimals = b.valueDecimals
  /\ a.tag1 = b.tag1
  /\ a.tag2 = b.tag2
  /\ a.endpoint = b.endpoint
  /\ a.feedbackURI = b.feedbackURI
  /\ a.feedbackHash = b.feedbackHash
  /\ a.blockNumber = b.blockNumber
  /\ a.transactionHash = b.transactionHash

\* C28: dedupeLogs keeps one of two logs exactly when the two agree on all
\* twelve fields of the tuple, whatever the events they were returned under;
\* two logs that differ in a field are both kept
C28_CollapsedIffAllFieldsAgree ==
  deduped.called =>
    (Len(deduped.result) = 1 <=> AgreeOnKeyFields(deduped.logs[1], deduped.logs[2]))

\* ------------------------------------------------------------------ stored records
\* C29: whatever updateScore and batchUpdateScores calls were made, by the
\* updater or by anyone else, accepted or reverted, every stored record with
\* exists = true has a score of at most 1000 and no more positive feedback
\* than total feedback
C29_StoredRecordsValid ==
  \A agentId \in Agents :
    _scores[agentId].exists =>
      /\ _scores[agentId].score <= 1000
      /\ _scores[agentId].positiveFeedback <= _scores[agentId].totalFeedback

\* every agent has a stored record, two of them with different scores, and one
\* was written at a later block than another
C29_Witness ==
  /\ \A agentId \in Agents : _scores[agentId].exists
  /\ \E a, b \in Agents :
       /\ _scores[a].score # _scores[b].score
       /\ _scores[a].lastUpdated < _scores[b].lastUpdated

\* ------------------------------------------------------------------ dirty set split
\* the longest pending list and the longest list of new logs of a split
MaxSplitInputs == 2

\* agent IDs whose numeric order is not the order of their decimal strings
SplitAgentIds == {2, 9, 10}

\* the pending IDs of a loaded checkpoint: decimal strings, each once
SplitPendingInputs ==
  {ids \in UNION {[1..len -> {toString(id) : id \in SplitAgentIds}] : len \in 0..MaxSplitInputs} :
     \A i, j \in 1..Len(ids) : i # j => ids[i] # ids[j]}

SplitLogInputs ==
  UNION {[1..len -> [agentId : SplitAgentIds, isPositive : {TRUE}, blockNumber : {1}]] :
           len \in 0..MaxSplitInputs}

NoSplit == [called |-> FALSE]

\* runIndexerCycle from the dirty set to the queued IDs
SplitDirtyAgents ==
  /\ LibraryAtRest
  /\ \E pendingAgentIds \in SplitPendingInputs, newlyObservedLogs \in SplitLogInputs,
        batchSize \in 1..(MaxSplitInputs + 1) :
       LET checkpoint == [lastProcessedBlock |-> 0, pendingAgentIds |-> pendingAgentIds]
           dirtyAgentIds == DirtyAgentIds(checkpoint, newlyObservedLogs)
           sortedDirtyAgents == SortedDirtyAgents(dirtyAgentIds)
       IN  split' = [called |-> TRUE, checkpoint |-> checkpoint,
                     newlyObservedLogs |-> newlyObservedLogs, maxBatchSize |-> batchSize,
                     sortedDirtyAgents |-> sortedDirtyAgents,
                     agentsToProcess |-> AgentsToProcess(sortedDirtyAgents, batchSize),
                     queuedAgentIds |-> QueuedAgentIds(sortedDirtyAgents, batchSize)]
  /\ UNCHANGED <<indexerVars, contractVars, clientVars, scoring, scoringBefore, roundTrip,
                 deduped, classified, harness, fileVars>>

\* ------------------------------------------------------------------ dirty set claims
SplitDirty ==
  {BigInt(id) : id \in SeqToSet(split.checkpoint.pendingAgentIds)}
    \cup {split.newlyObservedLogs[i].agentId : i \in 1..Len(split.newlyObservedLogs)}

SplitProcessed == SeqToSet(split.agentsToProcess)
SplitQueued == {BigInt(id) : id \in SeqToSet(split.queuedAgentIds)}

\* C30: the dirty set of a cycle is the checkpoint's pending agents together
\* with the agents of the newly scanned events; the processed agents are its
\* min(maxBatchSize, size) smallest IDs by numeric value, in ascending order;
\* the queued agents are the rest; no agent is both processed and queued
C30_SplitOfDirtySet ==
  split.called =>
    /\ SeqToSet(split.sortedDirtyAgents) = SplitDirty
    /\ Len(split.agentsToProcess) = Min(split.maxBatchSize, Cardinality(SplitDirty))
    /\ \A p \in SplitProcessed : \A d \in SplitDirty \ SplitProcessed : p < d
    /\ \A i, j \in 1..Len(split.agentsToProcess) :
         i < j => split.agentsToProcess[i] < split.agentsToProcess[j]
    /\ SplitQueued = SplitDirty \ SplitProcessed
    /\ Len(split.queuedAgentIds) = Cardinality(SplitQueued)
    /\ SplitProcessed \cap SplitQueued = {}

\* pending 10 and new events of 9 and 2 with a batch of two: 2 and 9 are
\* processed and 10, the first of the three as a string, is queued
C30_Witness ==
  /\ split.called
  /\ split.checkpoint.pendingAgentIds = <<toString(10)>>
  /\ SplitDirty = SplitAgentIds
  /\ split.maxBatchSize = 2
  /\ split.agentsToProcess = <<2, 9>>
  /\ split.queuedAgentIds = <<toString(10)>>

\* ------------------------------------------------------------------ submitted scores
\* the feedback of an agent in the blocks from..to of the chain, oldest first:
\* the sentiment of each event and the time of its block in milliseconds
RECURSIVE FeedbackHistory(_, _, _)
FeedbackHistory(agentId, from, to) ==
  IF to < from \/ to < 1 THEN <<>>
  ELSE FeedbackHistory(agentId, from, to - 1)
       \o (IF to <= Len(chain) /\ \E e \in chain[to] : e.agentId = agentId
           THEN <<[isPositive |-> (CHOOSE e \in chain[to] : e.agentId = agentId).isPositive,
                   timestamp |-> BlockTimestamp(to) * DAY_MS]>>
           ELSE <<>>)

\* the scoring engine's result over the whole history of the i-th processed agent
ExpectedDetails(i) ==
  scoreFeedbackDetailed(FeedbackHistory(cycle.agentIds[i], startBlock, cycle.latestBlock),
                        scoringConfig, cycle.nowMs)

\* C31: what a cycle submits for a processed agent is the scoring engine's
\* score, total and positive count over all of the agent's feedback in the
\* blocks from startBlock to the observed head, the blocks at or before the
\* checkpoint's lastProcessedBlock included
C31_SubmittedIsScoreOfHistory ==
  \A i \in 1..Len(cycle.agentIds) :
    /\ cycle.scores[i] = ExpectedDetails(i).score
    /\ cycle.totals[i] = ExpectedDetails(i).totalFeedback
    /\ cycle.positives[i] = ExpectedDetails(i).positiveFeedback

\* a batch was sent for an agent that has feedback at or before the block the
\* checkpoint had reached and feedback after it
C31_Witness ==
  /\ pc = "wait"
  /\ cycle.checkpoint.lastProcessedBlock # Null
  /\ \E i \in 1..Len(cycle.agentIds) :
       /\ cycle.totals[i] >= 2
       /\ \E b \in 1..cycle.checkpoint.lastProcessedBlock :
            \E e \in chain[b] : e.agentId = cycle.agentIds[i]
       /\ \E b \in (cycle.checkpoint.lastProcessedBlock + 1)..cycle.latestBlock :
            \E e \in chain[b] : e.agentId = cycle.agentIds[i]

\* ------------------------------------------------------------------ isRpcError
\* the error objects of one thrown value; a link of 0 is an absent property
MaxObjects == 3

NoObject == 0

\* the frames the call stack holds before a RangeError: more than any chain of
\* distinct objects needs
MaxCallStack == MaxObjects + 1

RpcNumberCodes == {0 - 32000, 0 - 32005, 0 - 32603}

knownCodes == {"NETWORK_ERROR", "SERVER_ERROR", "TIMEOUT", "ECONNRESET", "ETIMEDOUT", "ENOTFOUND"}

retryHints ==
  {"timeout", "timed out", "429", "rate limit", "network error", "missing response",
   "temporarily unavailable", "socket hang up", "gateway timeout"}

\* an error object: its code by type, and the phrases that its message and
\* shortMessage contain once lowercased
ErrorShape(codeType, codeNumber, codeString, phrases) ==
  [codeType |-> codeType, codeNumber |-> codeNumber, codeString |-> codeString,
   phrases |-> phrases]

\* no code; a JSON-RPC code of the list; another number; a known string code;
\* the number of the list as a string; a message with a retry hint
RootShapes ==
  {ErrorShape("undefined", 0, "", {"boom"}),
   ErrorShape("number", 0 - 32000, "", {"boom"}),
   ErrorShape("number", 500, "", {"boom"}),
   ErrorShape("string", 0, "TIMEOUT", {}),
   ErrorShape("string", 0, "-32000", {"boom"}),
   ErrorShape("undefined", 0, "", {"rate limit"})}

NestedShapes ==
  {ErrorShape("undefined", 0, "", {"boom"}), ErrorShape("string", 0, "TIMEOUT", {})}

\* the code and message rules of isRpcError on one object
MatchesRule(object) ==
  \/ object.codeType = "number" /\ object.codeNumber \in RpcNumberCodes
  \/ object.codeType = "string" /\ object.codeString \in knownCodes
  \/ object.phrases \cap retryHints # {}

\* isRpcError(error) with stack frames left: "true", "false", or the
\* RangeError of a call stack that is full
RECURSIVE isRpcError(_, _, _)
isRpcError(heap, error, frames) ==
  IF frames = 0 THEN "RangeError"
  ELSE IF error = NoObject THEN "false"
  ELSE IF MatchesRule(heap[error].shape) THEN "true"
  ELSE IF heap[error].error # NoObject /\ heap[error].error # error
       THEN isRpcError(heap, heap[error].error, frames - 1)
  ELSE IF heap[error].cause # NoObject /\ heap[error].cause # error
       THEN isRpcError(heap, heap[error].cause, frames - 1)
  ELSE "false"

\* the thrown value is object 1
ErrorHeaps ==
  {heap \in [1..MaxObjects -> [shape : RootShapes, error : 0..MaxObjects, cause : 0..MaxObjects]] :
     \A o \in 2..MaxObjects : heap[o].shape \in NestedShapes}

\* isRpcError(error) is called on a thrown value
ClassifyError ==
  /\ LibraryAtRest
  /\ \E heap \in ErrorHeaps :
       classified' = [called |-> TRUE, heap |-> heap,
                      result |-> isRpcError(heap, 1, MaxCallStack)]
  /\ UNCHANGED <<indexerVars, contractVars, clientVars, scoring, scoringBefore, roundTrip,
                 deduped, split, harness, fileVars>>

\* ------------------------------------------------------------------ isRpcError claims
ThrownValue == classified.heap[1]

DirectCause ==
  IF ThrownValue.cause = NoObject THEN NoObject ELSE ThrownValue.cause

\* C33: isRpcError looks at the error and at its direct cause only: it answers
\* true exactly when the error or its direct cause matches a code or message
\* rule, and a match two or more links down does not count
C33_OneLevelOfCause ==
  (classified.called /\ classified.result # "RangeError") =>
    (classified.result = "true"
       <=> \/ MatchesRule(ThrownValue.shape)
           \/ DirectCause # NoObject /\ MatchesRule(classified.heap[DirectCause].shape))

\* C39: isRpcError returns a boolean for every error object, those whose
\* error and cause links form a cycle of two or more objects included
C39_ClassifierReturnsBoolean ==
  classified.called => classified.result \in {"true", "false"}

\* ------------------------------------------------------------------ withExponentialBackoff
\* the invocations of the operation that one call of the harness is followed for
MaxInvocations == 4

\* maxRetries when options.maxRetries is undefined: more than any number of
\* attempts the model reaches
Infinity == MaxInvocations + 1

\* what an invocation of the operation throws: an error with a JSON-RPC code,
\* an error without any indicator, and two errors that are each other's cause
ThrownSamples ==
  LET plain == ErrorShape("undefined", 0, "", {"boom"})
      coded == ErrorShape("number", 0 - 32005, "", {"boom"})
      alone(shape) == [o \in 1..MaxObjects |-> [shape |-> shape, error |-> NoObject,
                                                  cause |-> NoObject]]
  IN  {alone(coded), alone(plain),
       [alone(plain) EXCEPT ![1].cause = 2, ![2].cause = 1]}

RetriesLeftInclusive(attempts, maxRetries) == attempts <= maxRetries

\* the negation of `attempts >= maxRetries`
RetriesLeft(attempts, maxRetries) == attempts < maxRetries

\* withExponentialBackoff(operation, options) is called: options.initialDelayMs
\* and options.maxDelayMs are positive integers, options.maxRetries is
\* undefined or a non-negative integer
BackoffCall ==
  /\ harness = HarnessIdle
  /\ \E initialDelayMs \in 1..3, maxDelayMs \in 2..3, maxRetries \in (0..2) \cup {Infinity} :
       harness' = [HarnessIdle EXCEPT !.pc = "invoke",
                                      !.initialDelayMs = initialDelayMs,
                                      !.maxDelayMs = maxDelayMs,
                                      !.maxRetries = maxRetries,
                                      !.delayMs = initialDelayMs]
  /\ UNCHANGED outsideHarness

\* `return await operation()`: the operation answers; its value is the number
\* of the invocation
OperationReturns ==
  /\ harness.pc = "invoke"
  /\ harness.invocations < MaxInvocations
  /\ harness' = [harness EXCEPT !.pc = "returned",
                                !.invocations = @ + 1,
                                !.result = <<"value", harness.invocations + 1>>]
  /\ UNCHANGED outsideHarness

\* the operation throws and the catch block decides: rethrow, or count the
\* attempt, report it and start sleeping
OperationThrows ==
  /\ harness.pc = "invoke"
  /\ harness.invocations < MaxInvocations
  /\ \E heap \in ThrownSamples :
       LET class == isRpcError(heap, 1, MaxCallStack)
           thrown == [harness EXCEPT !.invocations = @ + 1,
                                     !.classes = Append(@, class)]
       IN  harness' =
             IF class = "RangeError"
             THEN [thrown EXCEPT !.pc = "thrown", !.result = <<"RangeError", 0>>]
             ELSE IF class = "false" \/ ~RetriesLeft(harness.attempts, harness.maxRetries)
             THEN [thrown EXCEPT !.pc = "thrown",
                                 !.result = <<"error", harness.invocations + 1>>]
             ELSE [thrown EXCEPT !.pc = "sleep",
                                 !.attempts = @ + 1,
                                 !.slept = Append(@, harness.delayMs)]
  /\ UNCHANGED outsideHarness

\* `await sleep(delayMs)` is over; the delay is doubled up to maxDelayMs
SleepEnds ==
  /\ harness.pc = "sleep"
  /\ harness' = [harness EXCEPT !.pc = "invoke",
                                !.delayMs = Min(harness.delayMs * 2, harness.maxDelayMs)]
  /\ UNCHANGED outsideHarness

InitBackoff ==
  IndexerAtRest /\ ContractInit /\ ClientAtRest /\ LibraryAtRest /\ FileAtRest

NextBackoff ==
  \/ BackoffCall
  \/ OperationReturns
  \/ OperationThrows
  \/ SleepEnds

SpecBackoff == InitBackoff /\ [][NextBackoff]_vars

\* ------------------------------------------------------------------ backoff claims
\* the failures before the last invocation
EarlierClasses ==
  IF harness.pc \in {"thrown", "sleep"} THEN SubSeq(harness.classes, 1, Len(harness.classes) - 1)
  ELSE harness.classes

\* C32: the operation is invoked again only after a failure the predicate
\* classified as retryable and while fewer than maxRetries retries were made;
\* an error that is not retryable is rethrown without a sleep; the operation
\* is invoked at most maxRetries + 1 times; the value returned is that of the
\* first invocation that succeeded
C32_RetryOnlyWhenRetryable ==
  /\ \A i \in 1..Len(EarlierClasses) : EarlierClasses[i] = "true"
  /\ harness.attempts <= harness.maxRetries
  /\ harness.invocations <= harness.maxRetries + 1
  /\ Len(harness.slept) = harness.attempts
  /\ (harness.pc = "thrown" /\ harness.classes[Len(harness.classes)] = "false") =>
       /\ harness.result = <<"error", harness.invocations>>
       /\ Len(harness.slept) = harness.invocations - 1
  /\ (harness.pc = "thrown" /\ harness.classes[Len(harness.classes)] = "true") =>
       /\ harness.result = <<"error", harness.invocations>>
       /\ harness.attempts = harness.maxRetries
  /\ harness.pc = "returned" =>
       /\ harness.result = <<"value", harness.invocations>>
       /\ Len(harness.classes) = harness.invocations - 1

\* the second retryable failure of a call with maxRetries = 1 was rethrown, and
\* elsewhere a call returned the value of its third invocation
C32_Witness ==
  \/ /\ harness.pc = "thrown"
     /\ harness.maxRetries = 1
     /\ harness.classes = <<"true", "true">>
  \/ /\ harness.pc = "returned"
     /\ harness.invocations = 3

\* C38: no delay that the harness sleeps is longer than maxDelayMs, whatever
\* the positive initialDelayMs and maxDelayMs, initialDelayMs > maxDelayMs
\* included
C38_DelaysWithinMax ==
  \A i \in 1..Len(harness.slept) : harness.slept[i] <= harness.maxDelayMs

\* ------------------------------------------------------------------ paid fetcher that cannot be built
\* the attempts of the current call in which paidFetchFactory threw: the
\* factory was called and no request followed
FactoryThrewAt ==
  {k \in 1..Len(attempted) :
     /\ attempted[k] = SOURCE.API_PAID
     /\ \E i \in 1..Len(calls) :
          /\ calls[i] = "paidFetchFactory"
          /\ i = Len(calls) \/ calls[i + 1] # RemoteCall(SOURCE.API_PAID)}

\* C34: when the paid fetcher cannot be built the api_paid attempt fails as
\* payment_unavailable, no HTTP request of the paid source is sent, and the
\* call goes on with the next source of the sequence
C34_PaymentUnavailableWithoutRequest ==
  \A k \in FactoryThrewAt :
    /\ Len(failures) >= k
    /\ failures[k] = FALLBACK_CODE.PAYMENT_UNAVAILABLE
    /\ \A i \in 1..Len(calls) : calls[i] # RemoteCall(SOURCE.API_PAID)
    /\ k < Len(sequence) =>
         \/ clientPc = "loop" /\ idx = k + 1 /\ attempted[k] = sequence[k]
         \/ Len(attempted) > k /\ attempted[k + 1] = sequence[k + 1]

\* the factory threw, the demo API was asked next and answered
C34_Witness ==
  /\ FactoryThrewAt = {1}
  /\ clientPc = "answered"
  /\ attempted = <<SOURCE.API_PAID, SOURCE.API_DEMO>>
  /\ calls = <<"paidFetchFactory", RemoteCall(SOURCE.API_DEMO)>>
  /\ envelope.source = SOURCE.API_DEMO

\* ------------------------------------------------------------------ indexer: nothing dirty is lost
\* C35: whatever cycles returned or threw, the agent of every feedback event
\* in a block the checkpoint counts as processed is either in the checkpoint's
\* pendingAgentIds or was in a batch mined by a cycle whose head was at or
\* past that block
C35_DirtyAgentNeverDropped ==
  \A b \in 1..Len(chain) :
    (b >= startBlock /\ b <= ckptFile.content.lastProcessedBlock) =>
      \A e \in chain[b] :
        \/ e.agentId \in PendingOnFile
        \/ ledger.commits[e.agentId] >= b

\* after a failed cycle a cycle returned: one agent with an event is queued on
\* file and another was in the batch mined at this cycle's head
C35_Witness ==
  /\ pc = "returned"
  /\ prev.ended = "thrown"
  /\ \E b1, b2 \in 1..Len(chain) :
       \E e1 \in chain[b1], e2 \in chain[b2] :
         /\ b1 <= cycle.latestBlock /\ b2 <= cycle.latestBlock
         /\ e1.agentId \in PendingOnFile
         /\ e2.agentId \notin PendingOnFile
         /\ ledger.commits[e2.agentId] = cycle.latestBlock

\* ------------------------------------------------------------------ indexer: the first scan
\* the cycle runs without a checkpoint file and has made its global scan
FirstRunPastSplit == PastSplit /\ ~ckptAtStart.exists

\* the blocks the global scan of the running cycle asked for
ScannedBlocks == FromBlock(cycle.checkpoint, startBlock)..cycle.latestBlock

\* C36, as claimed: on a first run the global scan covers every block from
\* startBlock to the head
C36_FirstScanFromStartBlock ==
  FirstRunPastSplit => \A b \in startBlock..cycle.latestBlock : b \in ScannedBlocks

\* C36, amended: on a first run the global scan covers every block from
\* max(startBlock, 1) to the head, and every agent with an event in one of
\* these blocks is in the dirty set of the cycle
C36_FirstScanFromStartBlockOrOne ==
  FirstRunPastSplit =>
    \A b \in Max(startBlock, 1)..cycle.latestBlock :
      /\ b \in ScannedBlocks
      /\ \A e \in chain[b] : e.agentId \in DirtySet

\* a first run with startBlock = 1 finds an event in block 1 and one at the head
C36_Witness ==
  /\ FirstRunPastSplit
  /\ startBlock = 1
  /\ cycle.latestBlock >= 2
  /\ chain[1] # {}
  /\ chain[cycle.latestBlock] # {}
  /\ Cardinality(DirtySet) = 2

\* ------------------------------------------------------------------ indexer: draining the queue
\* ceil(k / maxBatchSize) for the k agents of the queue the count started from
CyclesToDrain == (Cardinality(ledger.start) + maxBatchSize - 1) \div maxBatchSize

IndexerConfigInput(maxScore) ==
  [decayWindowDays |-> Undefined,
   recentFeedbackWeight |-> Undefined,
   olderFeedbackWeight |-> Undefined,
   confidenceThresholdFeedbackCount |-> Num(2),
   confidenceMultiplier |-> Num([n |-> 0, d |-> 1]),
   negativeFlagThresholdBps |-> Undefined,
   recentNegativeWindowDays |-> Undefined,
   flaggedScoreMultiplier |-> Num([n |-> 0, d |-> 1]),
   maxScore |-> maxScore]

\* maxScore is left out, or is twice the MAX_SCORE of the contract
MaxScoreInputs == {Undefined, Num(2 * MAX_SCORE)}

\* the indexer starts with config.scoringConfig = normalizeConfig(input)
InitConfigured ==
  /\ chain = <<>>
  /\ ckptFile = MissingFile
  /\ startBlock = 0
  /\ maxBatchSize = MaxBatchSizeBound
  /\ loopPc = "call"
  /\ pc = "idle"
  /\ inFlight = 0
  /\ cycle = FreshCycle(0)
  /\ txBroadcast = 0
  /\ ckptAtStart = MissingFile
  /\ failStage = "none"
  /\ prev = NoPrev
  /\ ledger = NoLedger
  /\ \E maxScore \in MaxScoreInputs :
       scoringConfig = normalizeConfig(IndexerConfigInput(maxScore))
  /\ ContractInit /\ ClientAtRest /\ LibraryAtRest /\ FileAtRest

SpecConfigured == InitConfigured /\ [][Next]_vars

\* C40: every batch the indexer is about to submit passes the validation of
\* the contract, whatever scoring configuration normalizeConfig has accepted:
\* the four arrays are equally long, no score is above MAX_SCORE, no positive
\* count is above its total, and the transaction does not revert
C40_BatchPassesValidation ==
  pc = "submit" =>
    /\ Len(cycle.scores) = Len(cycle.agentIds)
    /\ Len(cycle.totals) = Len(cycle.agentIds)
    /\ Len(cycle.positives) = Len(cycle.agentIds)
    /\ \A i \in 1..Len(cycle.agentIds) :
         /\ cycle.scores[i] <= MAX_SCORE
         /\ cycle.positives[i] <= cycle.totals[i]
    /\ ~BatchTx.reverted

\* ------------------------------------------------------------------ library specification
InitLibrary == IndexerAtRest /\ ContractInit /\ ClientAtRest /\ LibraryAtRest /\ FileAtRest

NextLibrary ==
  \/ ScoreFeedback
  \/ ScoreOneMore
  \/ SaveThenLoad
  \/ DedupeTwoLogs
  \/ SplitDirtyAgents
  \/ ClassifyError

SpecLibrary == InitLibrary /\ [][NextLibrary]_vars

====
